---- MODULE Spec2Model ----
(***************************************************************************)
(* PeerJsWrapper (sx-peerjs-http-util): the request/response correlator,   *)
(* the inbound dispatcher, the reconnection supervisor and the call        *)
(* session manager, as a state machine.                                    *)
(*                                                                         *)
(* Two wrapper instances are modelled, peers "A" and "B".  Every wrapper   *)
(* field is a function over Peers.  send() calls are issued by B towards   *)
(* A; each send() call is one slot of Sends.  One action is one event      *)
(* handler (or public method) of the wrapper, run to completion as the     *)
(* JavaScript event loop runs it.                                          *)
(*                                                                         *)
(* The PeerJS transport is external.  Its events are delivered by the      *)
(* environment in any order the transport's surface allows; where the      *)
(* transport may or may not call back synchronously (close() on an open    *)
(* connection, destroy() of a connected peer) both outcomes are explored.  *)
(***************************************************************************)
EXTENDS Integers, Sequences, FiniteSets, TLC

\* ---------------------------------------------------------------- bounds
MaxSends == 2
\* call()/answer() invocations modelled
MaxAttempts == 3
\* 'ended' notifications of one session that are told apart
MaxNotes == 2
\* the rounds of track.stop() counted on one session
MaxStops == 2
\* whenReady() calls modelled
MaxReady == 2
\* destroy() calls on one wrapper that are told apart
MaxDestroyCalls == 2
\* registerHandler/unregisterHandler calls on one wrapper that are logged
MaxRegLog == 3
\* audio tracks of a local stream
NumAudioTracks == 2

\* ------------------------------------------------------------- universes
Peers == {"A", "B"}
Sends == 1..MaxSends
Attempts == 1..MaxAttempts
ReadyCalls == 1..MaxReady
Sides == {"caller", "callee"}
NoCall == 0
AudioTracks == 1..NumAudioTracks
Paths == {"/echo", "/info"}
Undefined == <<"undefined">>
Payloads == {<<"x", "1">>, Undefined}
\* the functions the application passes to onIncomingCall()
IncomingListeners == {"L1", "L2"}
HandlerKinds == {"echo", "const", "throw", "throwValue"}
NoHandler == "none"

\* The peer that issues send() slot s, and the peer it names as target.
SendFrom(s) == "B"
SendTo(s) == "A"

\* Faulty variant of RecoverableErrors: every error type leads to a reconnect.
RecoverableErrorsAll ==
  {"network", "server-error", "socket-error", "socket-closed", "unavailable-id"}
RecoverableErrors == {"network", "server-error", "socket-error", "socket-closed"}
PeerErrorTypes == RecoverableErrors \cup {"unavailable-id"}

\* What a transport may do when close() is called on an open connection:
\* emit 'close' before close() returns (TRUE), or not (FALSE).
CloseEmitsSync == BOOLEAN

\* ------------------------------------------------------ values and errors
Err(msg, status, detail) == [msg |-> msg, status |-> status, detail |-> detail]
NoErr == Err("", 0, <<>>)

PendingOutcome == [kind |-> "pending", value |-> <<>>, error |-> NoErr]
Resolved(v) == [kind |-> "resolved", value |-> v, error |-> NoErr]
Rejected(e) == [kind |-> "rejected", value |-> <<>>, error |-> e]

\* A promise settles once: resolve/reject on a settled promise is ignored.
Settle(old, new) == IF old.kind = "pending" THEN new ELSE old

\* JSON.stringify of a payload, as used in the 'Request failed' message.
JSONstringify(d) == IF d = Undefined THEN Undefined ELSE <<"{">> \o d \o <<"}">>

NoMsg == [type |-> "none", id |-> 0, path |-> "", data |-> <<>>, status |-> 0]
\* Faulty variant of ResponseMsg: the response is not tagged with the request's id.
ResponseMsgNoId(id, response) ==
  [type |-> "response", id |-> 0, path |-> "", data |-> response.data,
   status |-> response.status]
RequestMsg(id, path, data) ==
  [type |-> "request", id |-> id, path |-> path, data |-> data, status |-> 0]
ResponseMsg(id, response) ==
  [type |-> "response", id |-> id, path |-> "", data |-> response.data,
   status |-> response.status]

NoReq == [path |-> "", data |-> <<>>]
NoAttempt == [op |-> "none", owner |-> "", remote |-> "", offer |-> 0, video |-> FALSE,
              pc |-> "idle"]
NoSession == [state |-> "none", reason |-> "", local |-> FALSE, remote |-> FALSE, mc |-> 0,
              isMuted |-> FALSE, audio |-> [i \in AudioTracks |-> TRUE],
              subs |-> <<>>, heard |-> <<>>, stops |-> 0, activeSeen |-> NoCall]
NoOffer == [from |-> "", hasVideo |-> FALSE]
NoMedia == [peer |-> [sd \in Sides |-> ""], ends |-> [sd \in Sides |-> "none"],
            answered |-> FALSE, video |-> FALSE, offer |-> NoOffer]
NoReady == [owner |-> "", pc |-> "idle", outcome |-> PendingOutcome]
NoTask == [state |-> "none", kind |-> NoHandler, from |-> "", path |-> "", data |-> <<>>, id |-> 0]

VARIABLES
  \* --- PeerJsWrapper fields, per peer
  myPeerId,         \* the id fixed by the constructor
  handleId,         \* the id the current Peer handle was created with ("" if none)
  isDestroyed,      \* BOOLEAN
  peerInstance,     \* "null", or the state of the current Peer handle:
                    \*   "connecting" | "open" | "disconnected"
  reconnectTimer,   \* BOOLEAN: a reconnect timeout is armed
  pendingRequests,  \* set of request ids (the keys of the Map)
  simpleHandlers,   \* [Paths -> HandlerKinds \cup {NoHandler}]
  connections,      \* set of inbound connections (named by their send slot)
  \* --- one send() call per slot
  sendPhase,        \* "idle" | "waiting" | "orphaned" | "registered" | "failed"
  sendReq,          \* [path, data] of the call
  outcome,          \* the state of the promise send() returned
  timer,            \* BOOLEAN: the request's 30 s timeout is armed
  settleCalls,      \* history: how often the call's resolve/reject was invoked
  timedOut,         \* history: the request's timeout callback has run
  \* --- the DataConnection of each send(), its two ends, messages in flight
  connClient,       \* "none" | "connecting" | "open" | "closed"
  connServer,       \* "none" | "open" | "closed"
  toServer,         \* message in flight to the target
  toClient,         \* message in flight back to the sender
  task,             \* the handler invocation awaited by the dispatcher
  respLog,          \* history: the response envelopes passed to conn.send()
  \* --- calls
  activeCall,       \* per peer: the attempt whose session is active, or NoCall
  attempt,          \* one call()/answer() invocation per slot: [op, owner, offer, pc]
  callOutcome,      \* the state of the promise call()/answer() returned
  callTimer,        \* BOOLEAN: call()'s 30 s no-answer timeout is armed
  callListening,    \* BOOLEAN: call()'s onConnected/onEnded are subscribed
  session,          \* the CallSessionImpl an attempt created: [state, reason, local, remote, mc]
  media,            \* the MediaConnection a call() created (named by its slot):
                    \*   [peer, ends], each end "none" | "new" | "open" | "closed"
  gumCalls,         \* history, per peer: getUserMedia() invocations
  incomingCallListeners, \* per peer: the listeners added by onIncomingCall()
  reconnectTimeouts,\* per peer: the reconnect setTimeout callbacks not yet run or cleared
  destroyCalls,     \* history: destroy() calls made on each peer, up to MaxDestroyCalls
  regLog,           \* history: the registerHandler/unregisterHandler calls, in order
  ready,            \* one whenReady() call per slot: its owner, where it
                    \*   stands and its promise
  callTimedOut,     \* history: the no-answer timeout found the session not connected
  endedNotes        \* history, per session: 'ended' notifications delivered to
                    \*   its state listeners (counted up to MaxNotes)

lifeVars == <<myPeerId, handleId, isDestroyed, peerInstance, reconnectTimer>>
wrapperVars == <<lifeVars, pendingRequests, simpleHandlers, connections>>
\* what ApplySendSt writes, besides pendingRequests
promiseVars == <<outcome, timer, settleCalls>>
sendVars == <<sendPhase, sendReq, promiseVars, timedOut>>
serverVars == <<connServer, toServer, toClient, task, respLog>>
connVars == <<connClient, serverVars>>
callVars == <<activeCall, attempt, callOutcome, callTimer, callListening,
              session, endedNotes, media, gumCalls, callTimedOut>>
\* listener set, and the counters kept beside the wrapper's fields
auxVars == <<incomingCallListeners, destroyCalls, reconnectTimeouts>>
vars == <<wrapperVars, sendVars, connVars, callVars, ready, auxVars, regLog>>

\* The correlation id of send slot s: `${myPeerId}-${Date.now()}-${Math.random()}`
\* is unique per call, as the slot number is.
requestId(s) == s

\* ------------------------------------------------------------------ Init
\* Faulty variant of HandleIdFor: the handle is created without an id, so
\* the signalling server assigns one.
HandleIdFromServer(id) == "server-assigned"

\* connect(): new Peer(this.myPeerId, ...)
HandleIdFor(id) == id
\* generateUUID() on peer p
generateUUID(p) == "uuid-of-" \o p

\* State after `new PeerJsWrapper(arg[p])` on every peer p ("" stands for no
\* id supplied): the constructor ran connect(), so each wrapper holds a
\* handle that has not opened yet.
Construct(arg) ==
  /\ myPeerId = [p \in Peers |-> IF arg[p] = "" THEN generateUUID(p) ELSE arg[p]]
  /\ handleId = [p \in Peers |-> HandleIdFor(myPeerId[p])]
  /\ isDestroyed = [p \in Peers |-> FALSE]
  /\ peerInstance = [p \in Peers |-> "connecting"]
  /\ reconnectTimer = [p \in Peers |-> FALSE]
  /\ pendingRequests = [p \in Peers |-> {}]
  /\ simpleHandlers = [p \in Peers |-> [q \in Paths |-> NoHandler]]
  /\ connections = [p \in Peers |-> {}]
  /\ sendPhase = [s \in Sends |-> "idle"]
  /\ sendReq = [s \in Sends |-> NoReq]
  /\ outcome = [s \in Sends |-> PendingOutcome]
  /\ timer = [s \in Sends |-> FALSE]
  /\ settleCalls = [s \in Sends |-> 0]
  /\ timedOut = [s \in Sends |-> FALSE]
  /\ connClient = [s \in Sends |-> "none"]
  /\ connServer = [s \in Sends |-> "none"]
  /\ toServer = [s \in Sends |-> NoMsg]
  /\ toClient = [s \in Sends |-> NoMsg]
  /\ task = [s \in Sends |-> NoTask]
  /\ respLog = [s \in Sends |-> <<>>]
  /\ activeCall = [p \in Peers |-> NoCall]
  /\ attempt = [c \in Attempts |-> NoAttempt]
  /\ callOutcome = [c \in Attempts |-> PendingOutcome]
  /\ callTimer = [c \in Attempts |-> FALSE]
  /\ callListening = [c \in Attempts |-> FALSE]
  /\ session = [c \in Attempts |-> NoSession]
  /\ media = [c \in Attempts |-> NoMedia]
  /\ gumCalls = [p \in Peers |-> 0]
  /\ callTimedOut = [c \in Attempts |-> FALSE]
  /\ ready = [r \in ReadyCalls |-> NoReady]
  /\ incomingCallListeners = [p \in Peers |-> {}]
  /\ reconnectTimeouts = [p \in Peers |-> 0]
  /\ destroyCalls = [p \in Peers |-> 0]
  /\ regLog = [p \in Peers |-> <<>>]
  /\ endedNotes = [c \in Attempts |-> 0]

\* Both wrappers constructed with the ids "A" and "B".
Init == Construct([p \in Peers |-> p])

\* ------------------------------------------------------- error objects
NotInitializedError == Err("Peer instance not initialized", 0, <<>>)
NotAvailableError == Err("Peer instance not available", 0, <<>>)
ConnectionClosedError == Err("Connection closed", 0, <<>>)
PeerDestroyedError == Err("Peer destroyed", 0, <<>>)
\* `Request timeout: ${peerId}${path}`
TimeoutError(peerId, path) == Err("Request timeout: ", 0, <<peerId, path>>)
\* `Request failed: ${response.status} ${JSON.stringify(response.data)}`
RequestFailedError(status, data) == Err("Request failed: ", status, JSONstringify(data))
\* The error object a Peer or a DataConnection emits, passed on unchanged.
TransportError(type) == Err(type, 0, <<>>)

\* ------------------------------------------------------- waitForReady()
\* Faulty variant of waitForReady: a missing handle is not checked for.
waitForReadyNoNullCheck(inst) ==
  IF inst = "open" THEN "resolve" ELSE "listen"
\* Faulty variant of waitForReady: no fast path for an open handle.
waitForReadyAlwaysListens(inst) ==
  IF inst = "null" THEN "reject" ELSE "listen"
\* What waitForReady() does on a handle in state inst: reject at once,
\* resolve at once, or register onOpen/onError on that handle.
waitForReady(inst) ==
  IF inst = "null" THEN "reject"
  ELSE IF inst = "open" THEN "resolve"
  ELSE "listen"
\* The listeners waitForReady() registered, on a promise with outcome o.
onOpen(o) == Settle(o, Resolved(Undefined))
onError(o, err) == Settle(o, Rejected(err))

\* --------------------------------------------------- send(): its handlers
\* The part of the wrapper's state one send() call's callbacks read and
\* write: whether pendingRequests holds its id, whether its timeout is
\* armed, and its promise.
SendSt(s) == [pend |-> requestId(s) \in pendingRequests[SendFrom(s)],
              timer |-> timer[s], out |-> outcome[s], calls |-> settleCalls[s]]

\* resolve(...) or reject(...) is called on the promise of st.
Call(st, result) ==
  [st EXCEPT !.out = Settle(st.out, result), !.calls = st.calls + 1]
\* clearTimeout(pending.timeout); this.pendingRequests.delete(requestId)
Remove(st) == [st EXCEPT !.pend = FALSE, !.timer = FALSE]

\* Faulty variants of Unbox: the success range off by one at both ends; no unboxing
\* (the whole response object is handed to the caller).
UnboxOffByOne(status, data) ==
  IF status <= 200 \/ status > 300
  THEN Rejected(RequestFailedError(status, data))
  ELSE Resolved(data)
UnboxWhole(status, data) ==
  IF status < 200 \/ status >= 300
  THEN Rejected(RequestFailedError(status, data))
  ELSE Resolved(<<"status", "data">> \o data)

\* if (response.status < 200 || response.status >= 300) reject else resolve(data)
Unbox(status, data) ==
  IF status < 200 \/ status >= 300
  THEN Rejected(RequestFailedError(status, data))
  ELSE Resolved(data)

\* message.type === 'response' && message.id === requestId
ResponseMatches(msg, id) == msg.type = "response" /\ msg.id = id

\* conn.on('data'): settle the pending request found under the id.
onData(st, msg, id) ==
  IF ResponseMatches(msg, id) /\ st.pend
  THEN Call(Remove(st), Unbox(msg.status, msg.data))
  ELSE st

\* conn.on('error')
onConnError(st, err) ==
  IF st.pend
  THEN Call(Remove(st), Rejected(err))
  ELSE st

\* Faulty variant of onConnClose: rejects and leaves the entry (and its timer) behind.
onConnCloseNoDelete(st) ==
  IF st.pend THEN Call(st, Rejected(ConnectionClosedError)) ELSE st

\* conn.on('close')
onConnClose(st) ==
  IF st.pend
  THEN Call(Remove(st), Rejected(ConnectionClosedError))
  ELSE st

\* The setTimeout callback: conn.close() (whose 'close' handler runs first
\* when the transport emits it synchronously), delete, reject.
onTimeout(st, closeEmitted, peerId, path) ==
  LET a == IF closeEmitted THEN onConnClose(st) ELSE st
  IN Call(Remove(a), Rejected(TimeoutError(peerId, path)))

\* Faulty variant of onDestroy: the request's timeout is left armed.
onDestroyKeepsTimer(st) ==
  IF st.pend
  THEN Call([st EXCEPT !.pend = FALSE], Rejected(PeerDestroyedError))
  ELSE st
\* destroy(): clearTimeout, reject('Peer destroyed'), then the map is cleared.
onDestroy(st) ==
  IF st.pend
  THEN Call(Remove(st), Rejected(PeerDestroyedError))
  ELSE st

\* Write back the per-send state `new` (a function over Sends).
ApplySendSt(new) ==
  /\ outcome' = [s \in Sends |-> new[s].out]
  /\ timer' = [s \in Sends |-> new[s].timer]
  /\ settleCalls' = [s \in Sends |-> new[s].calls]
  /\ pendingRequests' =
       [p \in Peers |->
          (pendingRequests[p] \ {requestId(s) : s \in {x \in Sends : SendFrom(x) = p}})
          \cup {requestId(s) : s \in {x \in Sends : SendFrom(x) = p /\ new[x].pend}}]

\* The body of send()'s .then(): connect(), arm the timeout, register the
\* pending request, for every send in W (the waiters waitForReady resolved).
StartRequests(W) ==
  /\ sendPhase' = [s \in Sends |-> IF s \in W THEN "registered" ELSE sendPhase[s]]
  /\ connClient' = [s \in Sends |-> IF s \in W THEN "connecting" ELSE connClient[s]]
  /\ ApplySendSt([s \in Sends |->
        IF s \in W THEN [SendSt(s) EXCEPT !.pend = TRUE, !.timer = TRUE]
        ELSE SendSt(s)])

\* The sends whose waitForReady() listeners sit on p's current handle.
Waiters(p) == {s \in Sends : SendFrom(s) = p /\ sendPhase[s] = "waiting"}

\* send(peerId, path, data)
send(s, path, data) ==
  LET p == SendFrom(s) IN
  /\ sendPhase[s] = "idle"
  /\ \A t \in Sends : t < s => sendPhase[t] # "idle"
  /\ sendReq' = [sendReq EXCEPT ![s] = [path |-> path, data |-> data]]
  /\ CASE waitForReady(peerInstance[p]) = "reject" ->
            \* waitForReady rejects; .catch(reject)
            /\ sendPhase' = [sendPhase EXCEPT ![s] = "failed"]
            /\ ApplySendSt([x \in Sends |->
                  IF x = s THEN Call(SendSt(s), Rejected(NotInitializedError))
                  ELSE SendSt(x)])
            /\ UNCHANGED connClient
       [] waitForReady(peerInstance[p]) = "resolve" ->
            StartRequests({s})
       [] OTHER ->
            \* listeners registered on the current handle
            /\ sendPhase' = [sendPhase EXCEPT ![s] = "waiting"]
            /\ UNCHANGED <<promiseVars, pendingRequests, connClient>>
  /\ UNCHANGED <<lifeVars, simpleHandlers, connections, timedOut, serverVars>>
  /\ UNCHANGED <<callVars, ready, auxVars, regLog>>

\* The request's 30 s timeout fires.
Timeout(s) ==
  /\ timer[s]
  /\ \E sync \in CloseEmitsSync :
       ApplySendSt([x \in Sends |->
         IF x = s
         THEN onTimeout(SendSt(s), connClient[s] = "open" /\ sync,
                        SendTo(s), sendReq[s].path)
         ELSE SendSt(x)])
  /\ connClient' = [connClient EXCEPT ![s] = "closed"]
  /\ timedOut' = [timedOut EXCEPT ![s] = TRUE]
  /\ UNCHANGED <<lifeVars, simpleHandlers, connections, sendPhase, sendReq, serverVars>>
  /\ UNCHANGED <<callVars, ready, auxVars, regLog>>

\* The sender's connection opens: conn.on('open') sends the request envelope.
ClientConnOpen(s) ==
  /\ connClient[s] = "connecting"
  /\ connServer[s] = "open"
  /\ connClient' = [connClient EXCEPT ![s] = "open"]
  /\ toServer' = [toServer EXCEPT ![s] =
                    RequestMsg(requestId(s), sendReq[s].path, sendReq[s].data)]
  /\ UNCHANGED <<wrapperVars, sendVars, connServer, toClient, task, respLog>>
  /\ UNCHANGED <<callVars, ready, auxVars, regLog>>

\* A message arrives on the sender's connection: conn.on('data').
ClientData(s) ==
  /\ toClient[s] # NoMsg
  /\ connClient[s] = "open"
  /\ toClient' = [toClient EXCEPT ![s] = NoMsg]
  /\ ApplySendSt([x \in Sends |->
        IF x = s THEN onData(SendSt(s), toClient[s], requestId(s)) ELSE SendSt(x)])
  \* conn.close() follows; its 'close' handler finds no pending request
  /\ connClient' = [connClient EXCEPT ![s] =
                     IF ResponseMatches(toClient[s], requestId(s)) THEN "closed" ELSE @]
  /\ UNCHANGED <<lifeVars, simpleHandlers, connections, sendPhase, sendReq, timedOut>>
  /\ UNCHANGED <<connServer, toServer, task, respLog>>
  /\ UNCHANGED <<callVars, ready, auxVars, regLog>>

\* The sender's connection reports an error: conn.on('error').
ClientConnError(s) ==
  /\ connClient[s] \in {"connecting", "open"}
  /\ ApplySendSt([x \in Sends |->
        IF x = s THEN onConnError(SendSt(s), TransportError("connection-error"))
        ELSE SendSt(x)])
  /\ UNCHANGED <<lifeVars, simpleHandlers, connections, sendPhase, sendReq, timedOut>>
  /\ UNCHANGED connVars
  /\ UNCHANGED <<callVars, ready, auxVars, regLog>>

\* The sender's connection is closed by the transport or the remote end:
\* conn.on('close').
ClientConnClose(s) ==
  /\ connClient[s] \in {"connecting", "open"}
  /\ connClient' = [connClient EXCEPT ![s] = "closed"]
  /\ ApplySendSt([x \in Sends |-> IF x = s THEN onConnClose(SendSt(s)) ELSE SendSt(x)])
  /\ UNCHANGED <<lifeVars, simpleHandlers, connections, sendPhase, sendReq, timedOut>>
  /\ UNCHANGED serverVars
  /\ UNCHANGED <<callVars, ready, auxVars, regLog>>

\* ------------------------------------------------------ inbound dispatcher
\* What a registered handler does when called with (from, data).
RunHandler(kind, from, path, data) ==
  CASE kind = "echo" ->
         [threw |-> FALSE, isError |-> FALSE, value |-> data, message |-> ""]
    [] kind = "const" ->
         [threw |-> FALSE, isError |-> FALSE, value |-> <<"result", path, from>>,
          message |-> ""]
    [] kind = "throw" ->
         [threw |-> TRUE, isError |-> TRUE, value |-> <<>>, message |-> "boom"]
    [] kind = "throwValue" ->
         \* throws (or rejects with) the string "oops", which is not an Error
         [threw |-> TRUE, isError |-> FALSE, value |-> <<>>, message |-> "oops"]
    [] OTHER ->
         [threw |-> TRUE, isError |-> FALSE, value |-> <<>>, message |-> ""]

\* Faulty variant of NotFoundResponse: the path is left out of the message.
NotFoundNoPath(path) == [status |-> 404, data |-> <<"error", "Path not found: ">>]

\* handleRequest, no handler found
NotFoundResponse(path) ==
  [status |-> 404, data |-> <<"error", "Path not found: ", path>>]
\* handleRequest, handler returned: { status: 200, data }
OkResponse(data) == [status |-> 200, data |-> data]
\* Faulty variant of ErrorResponse: the thrown message is dropped.
ErrorResponseGeneric(r) == [status |-> 500, data |-> <<"error", "Unknown error">>]

\* the dispatcher's catch: error instanceof Error ? error.message : 'Unknown error'
ErrorResponse(r) ==
  [status |-> 500,
   data |-> <<"error", IF r.isError THEN r.message ELSE "Unknown error">>]

\* The response the dispatcher sends once the awaited handler has finished.
HandlerResponse(t) ==
  LET r == RunHandler(t.kind, t.from, t.path, t.data)
  IN IF r.threw THEN ErrorResponse(r) ELSE OkResponse(r.value)

\* conn.send(envelope) on the inbound connection of s: the envelope travels
\* if the connection is open and goes nowhere otherwise.
ServerSend(s, msg) ==
  /\ respLog' = [respLog EXCEPT ![s] = Append(@, msg)]
  /\ toClient' = [toClient EXCEPT ![s] = IF connServer[s] = "open" THEN msg ELSE @]

\* peer.on('connection'): the target's handle delivers a new inbound
\* connection, which the wrapper tracks.
ServerConnection(s) ==
  LET p == SendTo(s) IN
  /\ connClient[s] = "connecting"
  /\ connServer[s] = "none"
  /\ peerInstance[p] = "open"
  /\ connServer' = [connServer EXCEPT ![s] = "open"]
  /\ connections' = [connections EXCEPT ![p] = @ \cup {s}]
  /\ UNCHANGED <<lifeVars, pendingRequests, simpleHandlers, sendVars>>
  /\ UNCHANGED <<connClient, toServer, toClient, task, respLog>>
  /\ UNCHANGED <<callVars, ready, auxVars, regLog>>

\* Faulty variant of ConnPeer: the handler is given the wrapper's own id.
ConnPeerSelf(s) == myPeerId[SendTo(s)]
\* conn.peer of the inbound connection of s: the id of the peer that opened it.
ConnPeer(s) == myPeerId[SendFrom(s)]

\* The message types a remote peer may put on a connection besides 'request'.
StrayTypes == {"response", "ping"}
\* A message that is not a request envelope arrives on an inbound connection.
InboundStray(s, type) ==
  /\ connServer[s] = "open"
  /\ toServer[s] = NoMsg
  /\ toServer' = [toServer EXCEPT ![s] =
        [type |-> type, id |-> requestId(s), path |-> "", data |-> <<>>, status |-> 200]]
  /\ UNCHANGED <<wrapperVars, sendVars, connClient, connServer, toClient, task, respLog>>
  /\ UNCHANGED <<callVars, ready, auxVars, regLog>>

\* conn.on('data') of an inbound connection: handleRequest looks the handler
\* up and calls it with (conn.peer, request.data), or answers 404.
ServerData(s) ==
  LET p == SendTo(s)
      msg == toServer[s]
      kind == simpleHandlers[p][msg.path]
      t == [state |-> "running", kind |-> kind, from |-> ConnPeer(s),
            path |-> msg.path, data |-> msg.data, id |-> msg.id]
  IN
  /\ msg # NoMsg
  /\ connServer[s] = "open"
  /\ toServer' = [toServer EXCEPT ![s] = NoMsg]
  /\ IF msg.type = "request"
     THEN IF kind = NoHandler
          THEN /\ task' = [task EXCEPT ![s] = [t EXCEPT !.state = "done"]]
               /\ ServerSend(s, ResponseMsg(msg.id, NotFoundResponse(msg.path)))
          ELSE /\ task' = [task EXCEPT ![s] = t]
               /\ UNCHANGED <<toClient, respLog>>
     ELSE UNCHANGED <<toClient, task, respLog>>
  /\ UNCHANGED <<wrapperVars, sendVars, connClient, connServer>>
  /\ UNCHANGED <<callVars, ready, auxVars, regLog>>

\* The awaited handler finishes: the dispatcher sends the response envelope
\* on the same connection.
HandlerDone(s) ==
  /\ task[s].state = "running"
  /\ task' = [task EXCEPT ![s].state = "done"]
  /\ ServerSend(s, ResponseMsg(task[s].id, HandlerResponse(task[s])))
  /\ UNCHANGED <<wrapperVars, sendVars, connClient, connServer, toServer>>
  /\ UNCHANGED <<callVars, ready, auxVars, regLog>>

\* conn.on('close') of an inbound connection
ServerConnClose(s) ==
  LET p == SendTo(s) IN
  /\ connServer[s] = "open"
  /\ connServer' = [connServer EXCEPT ![s] = "closed"]
  /\ connections' = [connections EXCEPT ![p] = @ \ {s}]
  /\ UNCHANGED <<lifeVars, pendingRequests, simpleHandlers, sendVars>>
  /\ UNCHANGED <<connClient, toServer, toClient, task, respLog>>
  /\ UNCHANGED <<callVars, ready, auxVars, regLog>>

\* conn.on('error') of an inbound connection
ServerConnError(s) ==
  LET p == SendTo(s) IN
  /\ connServer[s] = "open"
  /\ connections' = [connections EXCEPT ![p] = @ \ {s}]
  /\ UNCHANGED <<lifeVars, pendingRequests, simpleHandlers, sendVars, connVars>>
  /\ UNCHANGED <<callVars, ready, auxVars, regLog>>

\* Faulty variant of registerHandler: a path that has a handler keeps it.
registerHandlerKeepsFirst(p, path, kind) ==
  /\ simpleHandlers' = [simpleHandlers EXCEPT ![p][path] =
                          IF @ = NoHandler THEN kind ELSE @]
  /\ UNCHANGED <<lifeVars, pendingRequests, connections, sendVars, connVars>>
  /\ UNCHANGED <<callVars, ready, auxVars>>

\* registerHandler(path, handler)
registerHandler(p, path, kind) ==
  /\ simpleHandlers' = [simpleHandlers EXCEPT ![p][path] = kind]
  /\ UNCHANGED <<lifeVars, pendingRequests, connections, sendVars, connVars>>
  /\ UNCHANGED <<callVars, ready, auxVars>>

\* unregisterHandler(path)
unregisterHandler(p, path) ==
  /\ simpleHandlers' = [simpleHandlers EXCEPT ![p][path] = NoHandler]
  /\ UNCHANGED <<lifeVars, pendingRequests, connections, sendVars, connVars>>
  /\ UNCHANGED <<callVars, ready, auxVars>>

\* onIncomingCall(listener)
onIncomingCall(p, l) ==
  /\ incomingCallListeners' = [incomingCallListeners EXCEPT ![p] = @ \cup {l}]
  /\ UNCHANGED <<wrapperVars, sendVars, connVars, callVars, ready>>
  /\ UNCHANGED <<reconnectTimeouts, destroyCalls, regLog>>

\* offIncomingCall(listener)
offIncomingCall(p, l) ==
  /\ incomingCallListeners' = [incomingCallListeners EXCEPT ![p] = @ \ {l}]
  /\ UNCHANGED <<wrapperVars, sendVars, connVars, callVars, ready>>
  /\ UNCHANGED <<reconnectTimeouts, destroyCalls, regLog>>

\* ------------------------------------------------ call sessions: helpers
CallSessionValue == <<"CallSession">>
AlreadyInCallError == Err("Already in a call", 0, <<>>)
\* `Failed to get media: ${err.message}`
FailedMediaError == Err("Failed to get media: ", 0, <<>>)
CallTimeoutError == Err("Call timeout - no answer", 0, <<>>)
\* What the runtime throws on a method call on null or undefined.
TypeErrorThrown == Err("TypeError", 0, <<>>)

\* The end of the MediaConnection a call attempt's session holds.
SideOf(c) == IF attempt[c].op = "call" THEN "caller" ELSE "callee"

\* The part of the state the media-connection handlers read and write.
CallSt == [act |-> activeCall, ses |-> session, out |-> callOutcome,
           tmr |-> callTimer, lis |-> callListening, med |-> media,
           notes |-> endedNotes]

\* The sessions whose handlers are attached to the ends in E
\* (a set of <<media connection, side>> pairs).
SessionsOn(st, E) ==
  {c \in Attempts : st.ses[c].state # "none" /\ <<st.ses[c].mc, SideOf(c)>> \in E}

\* The application's state listeners: one returns, one throws.
StateListeners == {"returns", "throws"}
Throws(l) == l = "throws"

\* Faulty variant of notifyStateChange: no try/catch around the listener.
RECURSIVE notifyStateChangeUncaught(_, _)
notifyStateChangeUncaught(subs, state) ==
  IF subs = <<>> THEN <<>>
  ELSE IF Throws(Head(subs)) THEN << <<Head(subs), state>> >>
  ELSE << <<Head(subs), state>> >> \o notifyStateChangeUncaught(Tail(subs), state)

\* notifyStateChange(state): stateListeners.forEach in insertion order, each
\* call in a try/catch.  The calls made, as <<listener, state>> pairs.
RECURSIVE notifyStateChange(_, _)
notifyStateChange(subs, state) ==
  IF subs = <<>> THEN <<>>
  ELSE << <<Head(subs), state>> >> \o notifyStateChange(Tail(subs), state)

\* session.setState(state, reason) for every session of S: the state is
\* written; the listeners are notified, call()'s onConnected first, which
\* clears the no-answer timeout, unsubscribes itself and onEnded and
\* resolves; on 'ended' cleanupCall() clears activeCall if it is the session.
\* notifyStateChange() runs the listeners before onCleanup: activeSeen is
\* the wrapper's activeCall as the listeners of the last notification found it.
setState(st, S, state, reason) ==
  [st EXCEPT
     !.ses = [c \in Attempts |->
                IF c \in S
                THEN [@[c] EXCEPT !.state = state, !.reason = reason,
                                  !.heard = notifyStateChange(st.ses[c].subs, state),
                                  !.activeSeen = IF st.ses[c].subs # <<>>
                                                 THEN st.act[attempt[c].owner]
                                                 ELSE @]
                ELSE @[c]],
     !.out = [c \in Attempts |->
                IF c \in S /\ st.lis[c] THEN Settle(@[c], Resolved(CallSessionValue))
                ELSE @[c]],
     !.tmr = [c \in Attempts |-> IF c \in S /\ st.lis[c] THEN FALSE ELSE @[c]],
     !.lis = [c \in Attempts |-> IF c \in S THEN FALSE ELSE @[c]],
     !.act = [p \in Peers |->
                IF state = "ended" /\ @[p] \in S THEN NoCall ELSE @[p]],
     !.notes = [c \in Attempts |->
                IF state = "ended" /\ c \in S /\ @[c] < MaxNotes THEN @[c] + 1 ELSE @[c]]]

\* CallSessionImpl.close() for every session of S
sessionClose(st, S) ==
  [st EXCEPT
     !.ses = [c \in Attempts |->
                IF c \in S
                THEN [@[c] EXCEPT !.local = FALSE, !.remote = FALSE, !.state = "ended",
                                  !.stops = IF st.ses[c].local /\ @ < MaxStops
                                            THEN @ + 1 ELSE @]
                ELSE @[c]]]

\* mediaConnection.on('stream')
onStream(st, S) ==
  setState([st EXCEPT !.ses = [c \in Attempts |->
                                 IF c \in S THEN [@[c] EXCEPT !.remote = TRUE] ELSE @[c]]],
           S, "connected", "")
\* mediaConnection.on('close')
onMediaClose(st, S) == setState(sessionClose(st, S), S, "ended", "Connection closed")
\* mediaConnection.on('error')
onMediaError(st, S) == setState(sessionClose(st, S), S, "ended", "Media error")

\* MediaConnection.close() on the ends in E: an end that was open emits
\* 'close' before close() returns, any other end emits nothing.
closeEnds(st, E) ==
  LET openEnds == {e \in E : st.med[e[1]].ends[e[2]] = "open"}
      closed == [st EXCEPT !.med = [m \in Attempts |->
                   [@[m] EXCEPT !.ends = [sd \in Sides |->
                      IF <<m, sd>> \in E /\ @[sd] # "none" THEN "closed" ELSE @[sd]]]]]
  IN onMediaClose(closed, SessionsOn(st, openEnds))

\* The ends of media connections that belong to p's transport handle.
EndsOf(p) ==
  {e \in Attempts \X Sides :
     media[e[1]].peer[e[2]] = p /\ media[e[1]].ends[e[2]] \in {"new", "open"}}

\* reject(err) / resolve(v) on the promise of attempt c
settleCall(st, c, result) == [st EXCEPT !.out[c] = Settle(@, result)]

ApplyCallSt(st) ==
  /\ activeCall' = st.act
  /\ session' = st.ses
  /\ callOutcome' = st.out
  /\ callTimer' = st.tmr
  /\ callListening' = st.lis
  /\ media' = st.med
  /\ endedNotes' = st.notes

\* The attempts whose waitForReady() listeners sit on p's current handle.
CallWaiters(p) ==
  {c \in Attempts : attempt[c].owner = p /\ attempt[c].pc = "waitReady"}
\* waitForReady() resolved for the attempts of W: getUserMedia() is called.
StartMedia(W) ==
  [c \in Attempts |-> IF c \in W THEN [attempt[c] EXCEPT !.pc = "media"] ELSE attempt[c]]

\* ----------------------------------------------------------- whenReady()
\* whenReady() on peer p, in slot r
whenReady(r, p) ==
  /\ ready[r].pc = "idle"
  /\ \A q \in ReadyCalls : q < r => ready[q].pc # "idle"
  /\ LET w == waitForReady(peerInstance[p]) IN
     ready' = [ready EXCEPT ![r] =
        [owner |-> p,
         pc |-> IF w = "listen" THEN "waiting" ELSE "done",
         outcome |-> CASE w = "reject" -> Rejected(NotInitializedError)
                       [] w = "resolve" -> Resolved(Undefined)
                       [] OTHER -> PendingOutcome]]
  /\ UNCHANGED <<wrapperVars, sendVars, connVars, callVars, auxVars, regLog>>

\* The whenReady() calls whose listeners sit on p's current handle.
ReadyWaiters(p) ==
  {r \in ReadyCalls : ready[r].owner = p /\ ready[r].pc = "waiting"}
\* Their listeners stay on a handle that was destroyed.
TeardownReady(p) ==
  [r \in ReadyCalls |->
     IF r \in ReadyWaiters(p) THEN [ready[r] EXCEPT !.pc = "orphaned"] ELSE ready[r]]

\* ------------------------------------------------ reconnection supervisor
\* Faulty variant of scheduleReconnect: never arms the timer.
scheduleReconnectNever(destroyed, armed) == armed
\* if (this.reconnectTimer) { clearTimeout(this.reconnectTimer); ... }: the
\* number of pending callbacks afterwards.
clearReconnect(armed, pending) == IF armed THEN pending - 1 ELSE pending
\* Faulty variant of scheduleReconnect: isDestroyed is not looked at.
scheduleReconnectWhenDestroyed(destroyed, armed) == TRUE
\* scheduleReconnect(): the value of reconnectTimer afterwards.
scheduleReconnect(destroyed, armed) ==
  IF destroyed THEN armed ELSE IF armed THEN armed ELSE TRUE
\* Faulty variant of timeoutsSet: a timeout is set also when one is pending.
timeoutsSetUnguarded(destroyed, armed) == IF destroyed THEN 0 ELSE 1
\* scheduleReconnect(): the number of setTimeout() calls it makes, one when
\* it sets reconnectTimer and none when it returns early.
timeoutsSet(destroyed, armed) ==
  IF scheduleReconnect(destroyed, armed) /\ ~armed THEN 1 ELSE 0

\* Peer.destroy() of p's handle closes every connection of that handle.
\* The ends of p's connections afterwards, and what the 'close' handlers
\* did when the transport emitted 'close' on the open ones (sync).
TeardownSt(p, sync, base) ==
  [s \in Sends |->
     IF SendFrom(s) = p /\ connClient[s] = "open" /\ sync
     THEN onConnClose(base[s]) ELSE base[s]]
TeardownClient(p) ==
  [s \in Sends |->
     IF SendFrom(s) = p /\ connClient[s] \in {"connecting", "open"}
     THEN "closed" ELSE connClient[s]]
TeardownServer(p) ==
  [s \in Sends |->
     IF SendTo(s) = p /\ connServer[s] = "open" THEN "closed" ELSE connServer[s]]
TeardownConnections(p, sync) ==
  IF sync THEN connections[p] \ {s \in Sends : SendTo(s) = p /\ connServer[s] = "open"}
  ELSE connections[p]
\* waitForReady() listeners stay on the handle that was destroyed.
TeardownPhase(p) ==
  [s \in Sends |->
     IF SendFrom(s) = p /\ sendPhase[s] = "waiting" THEN "orphaned" ELSE sendPhase[s]]

TeardownAttempts(p) ==
  [c \in Attempts |->
     IF c \in CallWaiters(p) THEN [attempt[c] EXCEPT !.pc = "orphaned"] ELSE attempt[c]]

\* peer.on('open'): clears the reconnect timer; waitForReady()'s onOpen
\* listeners resolve and the waiting sends go on.
PeerOpen(p) ==
  /\ peerInstance[p] = "connecting"
  /\ peerInstance' = [peerInstance EXCEPT ![p] = "open"]
  /\ reconnectTimer' = [reconnectTimer EXCEPT ![p] = FALSE]
  /\ reconnectTimeouts' = [reconnectTimeouts EXCEPT ![p] = clearReconnect(reconnectTimer[p], @)]
  /\ UNCHANGED <<incomingCallListeners, destroyCalls, regLog>>
  /\ StartRequests(Waiters(p))
  /\ attempt' = StartMedia(CallWaiters(p))
  /\ gumCalls' = [gumCalls EXCEPT ![p] = @ + Cardinality(CallWaiters(p))]
  /\ ready' = [r \in ReadyCalls |->
        IF r \in ReadyWaiters(p)
        THEN [ready[r] EXCEPT !.pc = "done", !.outcome = onOpen(@)] ELSE ready[r]]
  /\ UNCHANGED callTimedOut
  /\ UNCHANGED <<myPeerId, handleId, isDestroyed, simpleHandlers, connections, sendReq, timedOut, serverVars>>
  /\ UNCHANGED <<activeCall, callOutcome, callTimer, callListening, session, endedNotes, media>>

\* peer.on('disconnected')
PeerDisconnected(p) ==
  /\ peerInstance[p] \in {"connecting", "open"}
  /\ peerInstance' = [peerInstance EXCEPT ![p] = "disconnected"]
  /\ reconnectTimer' = [reconnectTimer EXCEPT ![p] = scheduleReconnect(isDestroyed[p], @)]
  /\ reconnectTimeouts' = [reconnectTimeouts EXCEPT ![p] =
        @ + timeoutsSet(isDestroyed[p], reconnectTimer[p])]
  /\ UNCHANGED <<myPeerId, handleId, isDestroyed, pendingRequests, simpleHandlers, connections>>
  /\ UNCHANGED <<sendVars, connVars>>
  /\ UNCHANGED <<callVars, ready, incomingCallListeners, destroyCalls, regLog>>

\* peer.on('error'): reconnect on the four network error types;
\* waitForReady()'s onError listeners reject with the error.
onPeerError(p, type) ==
  /\ reconnectTimer' = [reconnectTimer EXCEPT ![p] =
        IF type \in RecoverableErrors THEN scheduleReconnect(isDestroyed[p], @) ELSE @]
  /\ reconnectTimeouts' = [reconnectTimeouts EXCEPT ![p] =
        IF type \in RecoverableErrors
        THEN @ + timeoutsSet(isDestroyed[p], reconnectTimer[p]) ELSE @]
  /\ UNCHANGED <<incomingCallListeners, destroyCalls, regLog>>
  /\ sendPhase' = [s \in Sends |-> IF s \in Waiters(p) THEN "failed" ELSE sendPhase[s]]
  /\ ApplySendSt([s \in Sends |->
        IF s \in Waiters(p) THEN Call(SendSt(s), Rejected(TransportError(type)))
        ELSE SendSt(s)])
  /\ attempt' = [c \in Attempts |->
        IF c \in CallWaiters(p) THEN [attempt[c] EXCEPT !.pc = "done"] ELSE attempt[c]]
  /\ callOutcome' = [c \in Attempts |->
        IF c \in CallWaiters(p) THEN Settle(callOutcome[c], Rejected(TransportError(type)))
        ELSE callOutcome[c]]
  /\ UNCHANGED <<myPeerId, handleId, isDestroyed, simpleHandlers, connections>>
  /\ ready' = [r \in ReadyCalls |->
        IF r \in ReadyWaiters(p)
        THEN [ready[r] EXCEPT !.pc = "done", !.outcome = onError(@, TransportError(type))]
        ELSE ready[r]]
  /\ UNCHANGED <<sendReq, timedOut, connVars>>
  /\ UNCHANGED <<activeCall, callTimer, callListening, session, endedNotes, media, gumCalls, callTimedOut>>
\* The handle emits 'error' and goes on as it was.
PeerError(p, type) ==
  /\ peerInstance[p] # "null"
  /\ onPeerError(p, type)
  /\ UNCHANGED peerInstance
\* The handle loses its server connection: it emits 'error' with a network
\* error type and then, in the same turn, 'disconnected'. The 'error'
\* handler has armed the timer, so the 'disconnected' handler's
\* scheduleReconnect() finds it armed.
PeerAbort(p, type) ==
  /\ peerInstance[p] \in {"connecting", "open"}
  /\ type \in RecoverableErrors
  /\ onPeerError(p, type)
  /\ peerInstance' = [peerInstance EXCEPT ![p] = "disconnected"]

\* The reconnect timeout fires: reconnectTimer = null; reconnect().
\* reconnect() destroys the old handle (which may emit 'disconnected' if it
\* was not disconnected yet, and closes its connections) and connect()s.
ReconnectFire(p) ==
  /\ reconnectTimeouts[p] > 0
  /\ UNCHANGED <<incomingCallListeners, destroyCalls, regLog>>
  /\ IF isDestroyed[p]
     THEN /\ reconnectTimer' = [reconnectTimer EXCEPT ![p] = FALSE]
          /\ reconnectTimeouts' = [reconnectTimeouts EXCEPT ![p] = @ - 1]
          /\ UNCHANGED <<peerInstance, handleId, pendingRequests, connections>>
          /\ UNCHANGED <<sendPhase, promiseVars, connClient, connServer>>
          /\ UNCHANGED <<callVars, ready>>
     ELSE \E emits \in BOOLEAN, sync \in CloseEmitsSync :
          /\ emits => peerInstance[p] \in {"connecting", "open"}
          /\ reconnectTimer' = [reconnectTimer EXCEPT ![p] =
                IF emits THEN scheduleReconnect(isDestroyed[p], FALSE) ELSE FALSE]
          /\ reconnectTimeouts' = [reconnectTimeouts EXCEPT ![p] =
                (@ - 1) + IF emits THEN timeoutsSet(isDestroyed[p], FALSE) ELSE 0]
          /\ peerInstance' = [peerInstance EXCEPT ![p] = "connecting"]
          /\ handleId' = [handleId EXCEPT ![p] = HandleIdFor(myPeerId[p])]
          /\ ApplySendSt(TeardownSt(p, sync, [s \in Sends |-> SendSt(s)]))
          /\ connClient' = TeardownClient(p)
          /\ connServer' = TeardownServer(p)
          /\ connections' = [connections EXCEPT ![p] = TeardownConnections(p, sync)]
          /\ sendPhase' = TeardownPhase(p)
          /\ ApplyCallSt(closeEnds(CallSt, EndsOf(p)))
          /\ attempt' = TeardownAttempts(p)
          /\ ready' = TeardownReady(p)
          /\ UNCHANGED <<gumCalls, callTimedOut>>
  /\ UNCHANGED <<myPeerId, isDestroyed, simpleHandlers, sendReq, timedOut>>
  /\ UNCHANGED <<toServer, toClient, task, respLog>>

\* Faulty variant of clearActiveCall: the active-call slot is left as it is.
clearActiveCallKeeps(st, p) == st

\* destroy(): this.activeCall = null
clearActiveCall(st, p) == [st EXCEPT !.act[p] = NoCall]

\* destroy()
destroy(p) ==
  \* peerInstance.destroy() makes a handle that is not disconnected emit
  \* 'disconnected', whose handler calls scheduleReconnect()
  LET emits == peerInstance[p] \in {"connecting", "open"} IN
  /\ isDestroyed' = [isDestroyed EXCEPT ![p] = TRUE]
  /\ reconnectTimer' = [reconnectTimer EXCEPT ![p] =
        IF emits THEN scheduleReconnect(TRUE, FALSE) ELSE FALSE]
  /\ reconnectTimeouts' = [reconnectTimeouts EXCEPT ![p] =
        clearReconnect(reconnectTimer[p], @) + IF emits THEN timeoutsSet(TRUE, FALSE) ELSE 0]
  /\ incomingCallListeners' = [incomingCallListeners EXCEPT ![p] = {}]
  /\ destroyCalls' = [destroyCalls EXCEPT ![p] = IF @ < MaxDestroyCalls THEN @ + 1 ELSE @]
  /\ UNCHANGED regLog
  /\ connections' = [connections EXCEPT ![p] = {}]
  /\ ApplySendSt([s \in Sends |-> IF SendFrom(s) = p THEN onDestroy(SendSt(s)) ELSE SendSt(s)])
  /\ simpleHandlers' = [simpleHandlers EXCEPT ![p] = [q \in Paths |-> NoHandler]]
  /\ peerInstance' = [peerInstance EXCEPT ![p] = "null"]
  /\ handleId' = [handleId EXCEPT ![p] = ""]
  /\ UNCHANGED myPeerId
  /\ connClient' = TeardownClient(p)
  /\ connServer' = TeardownServer(p)
  /\ sendPhase' = TeardownPhase(p)
  /\ LET a == activeCall[p]
         hung == IF a # NoCall
                 THEN closeEnds(CallSt, {<<session[a].mc, SideOf(a)>>})
                 ELSE CallSt
         cleared == clearActiveCall(hung, p)
     IN ApplyCallSt(IF peerInstance[p] # "null"
                    THEN closeEnds(cleared, EndsOf(p)) ELSE cleared)
  /\ attempt' = TeardownAttempts(p)
  /\ ready' = TeardownReady(p)
  /\ UNCHANGED <<gumCalls, callTimedOut>>
  /\ UNCHANGED <<sendReq, timedOut, toServer, toClient, task, respLog>>

\* ------------------------------------------------------- call sessions
\* if (this.activeCall)
InCall(active) == active # NoCall

\* The result of an attempt whose promise is settled with `result` and whose
\* body has returned.
Finish(c, rec, result) ==
  /\ attempt' = [attempt EXCEPT ![c] = [rec EXCEPT !.pc = "done"]]
  /\ callOutcome' = [callOutcome EXCEPT ![c] = Settle(@, result)]

\* call(peerId): the active-call check, then waitForReady(), then the
\* request for the local media.
call(c, p, q, video) ==
  LET rec == [op |-> "call", owner |-> p, remote |-> q, offer |-> 0, video |-> video,
              pc |-> "idle"] IN
  /\ attempt[c].pc = "idle"
  /\ \A d \in Attempts : d < c => attempt[d].pc # "idle"
  /\ p # q
  /\ CASE InCall(activeCall[p]) ->
            /\ Finish(c, rec, Rejected(AlreadyInCallError))
            /\ UNCHANGED <<gumCalls, callTimedOut, ready, auxVars, regLog>>
       [] ~InCall(activeCall[p]) /\ waitForReady(peerInstance[p]) = "reject" ->
            /\ Finish(c, rec, Rejected(NotInitializedError))
            /\ UNCHANGED <<gumCalls, callTimedOut, ready, auxVars, regLog>>
       [] ~InCall(activeCall[p]) /\ waitForReady(peerInstance[p]) = "resolve" ->
            /\ attempt' = [attempt EXCEPT ![c] = [rec EXCEPT !.pc = "media"]]
            /\ gumCalls' = [gumCalls EXCEPT ![p] = @ + 1]
            /\ UNCHANGED <<callTimedOut, ready, auxVars, regLog>>
            /\ UNCHANGED callOutcome
       [] OTHER ->
            /\ attempt' = [attempt EXCEPT ![c] = [rec EXCEPT !.pc = "waitReady"]]
            /\ UNCHANGED <<gumCalls, callTimedOut, callOutcome, ready, auxVars, regLog>>
  /\ UNCHANGED <<activeCall, callTimer, callListening, session, endedNotes, media>>
  /\ UNCHANGED <<wrapperVars, sendVars, connVars>>

\* Faulty variant of OfferOf: the offer always announces video.
OfferAlwaysVideo(m) == [from |-> media[m].peer["caller"], hasVideo |-> TRUE]

\* The IncomingCallEvent handleIncomingCall() builds: from = mediaConnection.peer,
\* hasVideo = metadata?.video ?? false
OfferOf(m) == [from |-> media[m].peer["caller"], hasVideo |-> media[m].video]

\* peer.on('call') -> handleIncomingCall(): the offer of media connection m
\* reaches the callee and is handed to the incoming-call listeners.
IncomingCall(m) ==
  /\ media[m].ends["caller"] # "none"
  /\ media[m].ends["callee"] = "none"
  /\ peerInstance[media[m].peer["callee"]] = "open"
  /\ media' = [media EXCEPT ![m].ends["callee"] = "new", ![m].offer = OfferOf(m)]
  /\ UNCHANGED <<activeCall, attempt, callOutcome, callTimer, callListening,
                 session, endedNotes, gumCalls, callTimedOut, ready, auxVars, regLog>>
  /\ UNCHANGED <<wrapperVars, sendVars, connVars>>

\* event.answer() on the offer of media connection m
answer(c, m) ==
  LET q == media[m].peer["callee"]
      rec == [op |-> "answer", owner |-> q, remote |-> media[m].peer["caller"],
              offer |-> m,
              video |-> media[m].offer.hasVideo, pc |-> "idle"] IN
  /\ attempt[c].pc = "idle"
  /\ \A d \in Attempts : d < c => attempt[d].pc # "idle"
  /\ media[m].ends["callee"] # "none"
  /\ IF InCall(activeCall[q])
     THEN /\ attempt' = [attempt EXCEPT ![c] = [rec EXCEPT !.pc = "done"]]
          /\ ApplyCallSt(settleCall(closeEnds(CallSt, {<<m, "callee">>}), c,
                                    Rejected(AlreadyInCallError)))
          /\ UNCHANGED <<gumCalls, callTimedOut, ready, auxVars, regLog>>
     ELSE /\ attempt' = [attempt EXCEPT ![c] = [rec EXCEPT !.pc = "media"]]
          /\ gumCalls' = [gumCalls EXCEPT ![q] = @ + 1]
          /\ UNCHANGED <<callTimedOut, ready, auxVars, regLog>>
          /\ UNCHANGED <<activeCall, callOutcome, callTimer, callListening,
                         session, endedNotes, media>>
  /\ UNCHANGED <<wrapperVars, sendVars, connVars>>

\* event.reject() on the offer of media connection m
rejectOffer(m) ==
  /\ media[m].ends["callee"] \in {"new", "open"}
  /\ ApplyCallSt(closeEnds(CallSt, {<<m, "callee">>}))
  /\ UNCHANGED <<attempt, gumCalls, callTimedOut, ready, auxVars, regLog>>
  /\ UNCHANGED <<wrapperVars, sendVars, connVars>>

\* isMuted = false; the tracks getUserMedia() returned are enabled
NewSession(m) ==
  [state |-> "connecting", reason |-> "", local |-> TRUE, remote |-> FALSE, mc |-> m,
   isMuted |-> FALSE, audio |-> [i \in AudioTracks |-> TRUE],
   subs |-> <<>>, heard |-> <<>>, stops |-> 0, activeSeen |-> NoCall]

\* Faulty variant of onMediaDenied: the attempt is left as the wrapper's active call.
onMediaDeniedKeepsCall(st, c) ==
  [settleCall(st, c, Rejected(FailedMediaError)) EXCEPT !.act[attempt[c].owner] = c]
\* call(): getUserMedia() rejected; the catch rejects and returns.
onMediaDenied(st, c) == settleCall(st, c, Rejected(FailedMediaError))

\* getUserMedia() of call() attempt c settles: the rest of call()'s body.
CallMediaDone(c, ok) ==
  LET p == attempt[c].owner
      done == [attempt EXCEPT ![c].pc = "done"] IN
  /\ attempt[c].pc = "media" /\ attempt[c].op = "call"
  /\ CASE ~ok ->
            /\ attempt' = done
            /\ ApplyCallSt(onMediaDenied(CallSt, c))
            /\ UNCHANGED <<sendPhase, promiseVars, pendingRequests>>
       [] ok /\ peerInstance[p] = "null" ->
            \* this.peerInstance.call on null
            /\ attempt' = done
            /\ ApplyCallSt(settleCall(CallSt, c, Rejected(TypeErrorThrown)))
            /\ UNCHANGED <<sendPhase, promiseVars, pendingRequests>>
       [] ok /\ peerInstance[p] = "disconnected" ->
            \* Peer.call() emits a 'disconnected' error (which the waitForReady()
            \* listeners on the handle receive) and returns undefined
            /\ attempt' = [x \in Attempts |->
                 IF x = c \/ x \in CallWaiters(p) THEN [attempt[x] EXCEPT !.pc = "done"]
                 ELSE attempt[x]]
            /\ ApplyCallSt([CallSt EXCEPT !.out = [x \in Attempts |->
                 IF x = c THEN Settle(@[x], Rejected(TypeErrorThrown))
                 ELSE IF x \in CallWaiters(p)
                      THEN Settle(@[x], Rejected(TransportError("disconnected")))
                      ELSE @[x]]])
            /\ sendPhase' = [s \in Sends |->
                 IF s \in Waiters(p) THEN "failed" ELSE sendPhase[s]]
            /\ ApplySendSt([s \in Sends |->
                 IF s \in Waiters(p)
                 THEN Call(SendSt(s), Rejected(TransportError("disconnected")))
                 ELSE SendSt(s)])
       [] OTHER ->
            /\ attempt' = done
            /\ ApplyCallSt([CallSt EXCEPT
                 !.med[c] = [peer |-> [sd \in Sides |->
                                IF sd = "caller" THEN p ELSE attempt[c].remote],
                             ends |-> [sd \in Sides |->
                                IF sd = "caller" THEN "new" ELSE "none"],
                             answered |-> FALSE,
                             \* metadata: { video: hasVideo, ... }
                             video |-> attempt[c].video,
                             offer |-> NoOffer],
                 !.ses[c] = NewSession(c),
                 !.act[p] = c,
                 !.tmr[c] = TRUE,
                 !.lis[c] = TRUE])
            /\ UNCHANGED <<sendPhase, promiseVars, pendingRequests>>
  /\ ready' = [r \in ReadyCalls |->
        IF ok /\ peerInstance[p] = "disconnected" /\ r \in ReadyWaiters(p)
        THEN [ready[r] EXCEPT !.pc = "done",
                              !.outcome = onError(@, TransportError("disconnected"))]
        ELSE ready[r]]
  /\ UNCHANGED <<gumCalls, callTimedOut, auxVars, regLog>>
  /\ UNCHANGED <<lifeVars, simpleHandlers, connections, sendReq, timedOut, connVars>>

\* getUserMedia() of answer() attempt c settles: the rest of answer()'s body.
AnswerMediaDone(c, ok) ==
  LET q == attempt[c].owner
      m == attempt[c].offer
      e == {<<m, "callee">>} IN
  /\ attempt[c].pc = "media" /\ attempt[c].op = "answer"
  /\ attempt' = [attempt EXCEPT ![c].pc = "done"]
  /\ CASE ~ok ->
            ApplyCallSt(settleCall(closeEnds(CallSt, e), c, Rejected(FailedMediaError)))
       [] ok /\ media[m].ends["callee"] = "closed" ->
            \* MediaConnection.answer() after close(): its negotiator is null
            ApplyCallSt(settleCall(CallSt, c, Rejected(TypeErrorThrown)))
       [] OTHER ->
            \* MediaConnection.answer() returns early when it was answered before
            ApplyCallSt([CallSt EXCEPT
              !.med[m] = IF @.answered THEN @
                         ELSE [@ EXCEPT !.ends["callee"] = "open", !.answered = TRUE],
              !.ses[c] = NewSession(m),
              !.act[q] = c,
              !.out[c] = Settle(@, Resolved(CallSessionValue))])
  /\ UNCHANGED <<gumCalls, callTimedOut, ready, auxVars, regLog>>
  /\ UNCHANGED <<wrapperVars, sendVars, connVars>>

\* The caller's end receives the answer: its MediaConnection is open.
MediaAnswered(m) ==
  /\ media[m].answered
  /\ media[m].ends["caller"] = "new"
  /\ media' = [media EXCEPT ![m].ends["caller"] = "open"]
  /\ UNCHANGED <<activeCall, attempt, callOutcome, callTimer, callListening,
                 session, endedNotes, gumCalls, callTimedOut, ready, auxVars, regLog>>
  /\ UNCHANGED <<wrapperVars, sendVars, connVars>>

\* mediaConnection 'stream' on one end
MediaStream(m, side) ==
  /\ media[m].ends[side] = "open"
  /\ ApplyCallSt(onStream(CallSt, SessionsOn(CallSt, {<<m, side>>})))
  /\ UNCHANGED <<attempt, gumCalls, callTimedOut, ready, auxVars, regLog>>
  /\ UNCHANGED <<wrapperVars, sendVars, connVars>>

\* The other end was closed: the transport closes this end, which emits 'close'.
MediaRemoteClose(m, side) ==
  /\ media[m].ends[side] = "open"
  /\ \E other \in Sides \ {side} : media[m].ends[other] = "closed"
  /\ ApplyCallSt(closeEnds(CallSt, {<<m, side>>}))
  /\ UNCHANGED <<attempt, gumCalls, callTimedOut, ready, auxVars, regLog>>
  /\ UNCHANGED <<wrapperVars, sendVars, connVars>>

\* mediaConnection 'error' on one end
MediaError(m, side) ==
  /\ media[m].ends[side] \in {"new", "open"}
  /\ SessionsOn(CallSt, {<<m, side>>}) # {}
  /\ ApplyCallSt(onMediaError(CallSt, SessionsOn(CallSt, {<<m, side>>})))
  /\ UNCHANGED <<attempt, gumCalls, callTimedOut, ready, auxVars, regLog>>
  /\ UNCHANGED <<wrapperVars, sendVars, connVars>>

\* Faulty variant of toggleMuteSt: the tracks are set from the state before
\* the flip, with the sense of the state after it.
toggleMuteStale(s) ==
  IF ~s.local THEN [ses |-> s, ret |-> s.isMuted]
  ELSE [ses |-> [s EXCEPT !.audio = [i \in AudioTracks |-> ~s.isMuted],
                          !.isMuted = ~s.isMuted],
        ret |-> ~s.isMuted]

\* CallSessionImpl.toggleMute() on session record s: the record afterwards
\* and the value returned.  s.local: the session holds its local stream.
toggleMuteSt(s) ==
  IF ~s.local THEN [ses |-> s, ret |-> s.isMuted]
  ELSE [ses |-> [s EXCEPT !.audio = [i \in AudioTracks |-> s.isMuted],
                          !.isMuted = ~s.isMuted],
        ret |-> ~s.isMuted]

\* session.toggleMute()
toggleMute(c) ==
  /\ session[c].state # "none"
  /\ session' = [session EXCEPT ![c] = toggleMuteSt(@).ses]
  /\ UNCHANGED <<activeCall, attempt, callOutcome, callTimer, callListening,
                 endedNotes, media, gumCalls, callTimedOut, ready, auxVars, regLog>>
  /\ UNCHANGED <<wrapperVars, sendVars, connVars>>

\* session.onStateChange(listener): Set.add
onStateChange(c, l) ==
  /\ session[c].state # "none"
  /\ session' = [session EXCEPT ![c].subs =
                   IF \E i \in 1..Len(@) : @[i] = l THEN @ ELSE Append(@, l)]
  /\ UNCHANGED <<activeCall, attempt, callOutcome, callTimer, callListening,
                 endedNotes, media, gumCalls, callTimedOut, ready, auxVars, regLog>>
  /\ UNCHANGED <<wrapperVars, sendVars, connVars>>

\* session.offStateChange(listener): Set.delete
offStateChange(c, l) ==
  /\ session[c].state # "none"
  /\ session' = [session EXCEPT ![c].subs = SelectSeq(@, LAMBDA x : x # l)]
  /\ UNCHANGED <<activeCall, attempt, callOutcome, callTimer, callListening,
                 endedNotes, media, gumCalls, callTimedOut, ready, auxVars, regLog>>
  /\ UNCHANGED <<wrapperVars, sendVars, connVars>>

\* session.hangUp()
hangUp(c) ==
  /\ session[c].state # "none"
  /\ ApplyCallSt(closeEnds(CallSt, {<<session[c].mc, SideOf(c)>>}))
  /\ UNCHANGED <<attempt, gumCalls, callTimedOut, ready, auxVars, regLog>>
  /\ UNCHANGED <<wrapperVars, sendVars, connVars>>

\* call()'s 30 s no-answer timeout fires.
CallTimeout(c) ==
  /\ callTimer[c]
  /\ LET st == IF session[c].state # "connected"
               THEN settleCall(closeEnds(CallSt, {<<session[c].mc, SideOf(c)>>}), c,
                               Rejected(CallTimeoutError))
               ELSE CallSt
     IN ApplyCallSt([st EXCEPT !.tmr[c] = FALSE])
  /\ callTimedOut' = [callTimedOut EXCEPT ![c] = session[c].state # "connected"]
  /\ UNCHANGED <<ready, auxVars, regLog>>
  /\ UNCHANGED <<attempt, gumCalls>>
  /\ UNCHANGED <<wrapperVars, sendVars, connVars>>

\* A remote peer that is not this wrapper (the earlier RequestHandler API let
\* the handler choose the status) answers the request of s with any status.
Statuses == {199, 200, 201, 299, 300, 404, 500}
RemoteReply(s, status, data) ==
  /\ toServer[s] # NoMsg
  /\ connServer[s] = "open"
  /\ toServer' = [toServer EXCEPT ![s] = NoMsg]
  /\ ServerSend(s, ResponseMsg(toServer[s].id, [status |-> status, data |-> data]))
  /\ UNCHANGED <<wrapperVars, sendVars, connClient, connServer, task>>
  /\ UNCHANGED <<callVars, ready, auxVars, regLog>>

\* ------------------------------------------------------------------ Next
Callee == "A"
Caller == "B"

\* The correlator under the caller's transport lifecycle: sends from B to
\* A's /echo handler while B's handle opens, fails, is replaced or destroyed.
Next ==
  \/ \E s \in Sends : send(s, "/echo", <<"x", "1">>)
  \/ \E s \in Sends : Timeout(s)
  \/ \E s \in Sends : ClientConnOpen(s)
  \/ \E s \in Sends : ClientData(s)
  \/ \E s \in Sends : ClientConnError(s)
  \/ \E s \in Sends : ClientConnClose(s)
  \/ \E s \in Sends : ServerConnection(s)
  \/ \E s \in Sends : ServerData(s)
  \/ \E s \in Sends : HandlerDone(s)
  \/ \E s \in Sends : ServerConnClose(s)
  \/ \E s \in Sends : ServerConnError(s)
  \/ registerHandler(Callee, "/echo", "echo") /\ UNCHANGED regLog
  \/ PeerOpen(Callee)
  \/ PeerOpen(Caller)
  \/ PeerDisconnected(Caller)
  \/ \E type \in {"network", "unavailable-id"} : PeerError(Caller, type)
  \/ ReconnectFire(Caller)
  \/ destroy(Caller)

Spec == Init /\ [][Next]_vars

\* The handlers the application of A registers: /echo returns its input or
\* fails, /info returns a value of its own.
Registrations ==
  {<<"/echo", "echo">>, <<"/echo", "throw">>, <<"/echo", "throwValue">>,
   <<"/info", "const">>}

\* The dispatcher: sends from B over both paths and payloads while A's
\* handler registry changes; connections open, requests time out.
DispatchNext ==
  \/ \E s \in Sends, path \in Paths, data \in Payloads : send(s, path, data)
  \/ \E s \in Sends : Timeout(s)
  \/ \E s \in Sends : ClientConnOpen(s)
  \/ \E s \in Sends : ClientData(s)
  \/ \E s \in Sends : ServerConnection(s)
  \/ \E s \in Sends : ServerData(s)
  \/ \E s \in Sends : HandlerDone(s)
  \/ \E r \in Registrations : registerHandler(Callee, r[1], r[2]) /\ UNCHANGED regLog
  \/ \E path \in Paths : unregisterHandler(Callee, path) /\ UNCHANGED regLog
  \/ PeerOpen(Callee)
  \/ PeerOpen(Caller)

DispatchSpec == Init /\ [][DispatchNext]_vars

\* Unboxing: sends from B answered by a remote peer with any status.
UnboxNext ==
  \/ \E s \in Sends, data \in Payloads : send(s, "/echo", data)
  \/ \E s \in Sends : ClientConnOpen(s)
  \/ \E s \in Sends : ClientData(s)
  \/ \E s \in Sends : ServerConnection(s)
  \/ \E s \in Sends, status \in Statuses, data \in Payloads : RemoteReply(s, status, data)
  \/ PeerOpen(Callee)
  \/ PeerOpen(Caller)

UnboxSpec == Init /\ [][UnboxNext]_vars

\* The same, with the scheduling the event loop and the transport give:
\* an armed timer fires, a message in flight is delivered, a started
\* handler finishes, a connecting handle or connection opens.
Fairness ==
  /\ \A s \in Sends : WF_vars(Timeout(s))
  /\ \A s \in Sends : WF_vars(ClientConnOpen(s))
  /\ \A s \in Sends : WF_vars(ClientData(s))
  /\ \A s \in Sends : WF_vars(ServerConnection(s))
  /\ \A s \in Sends : WF_vars(ServerData(s))
  /\ \A s \in Sends : WF_vars(HandlerDone(s))
  /\ \A p \in Peers : WF_vars(PeerOpen(p))
  /\ \A p \in Peers : WF_vars(ReconnectFire(p))

FairSpec == Spec /\ Fairness

\* C1: every send() call eventually settles: its promise is resolved or
\* rejected (a promise holds one outcome, so exactly one of the two fires).
C1_EverySendSettles ==
  \A s \in Sends :
    (sendPhase[s] # "idle") ~> (outcome[s].kind \in {"resolved", "rejected"})

\* Calls: both peers place calls, offers are answered or rejected, media
\* is granted or refused, sessions are hung up, calls time out.
CallNext ==
  \/ \E p \in Peers : PeerOpen(p)
  \/ \E c \in Attempts, p, q \in Peers : call(c, p, q, FALSE)
  \/ \E m \in Attempts : IncomingCall(m)
  \/ \E c, m \in Attempts : answer(c, m)
  \/ \E m \in Attempts : rejectOffer(m)
  \/ \E c \in Attempts, ok \in BOOLEAN : CallMediaDone(c, ok)
  \/ \E c \in Attempts, ok \in BOOLEAN : AnswerMediaDone(c, ok)
  \/ \E m \in Attempts : MediaAnswered(m)
  \/ \E m \in Attempts, side \in Sides : MediaStream(m, side)
  \/ \E m \in Attempts, side \in Sides : MediaRemoteClose(m, side)
  \/ \E m \in Attempts, side \in Sides : MediaError(m, side)
  \/ \E c \in Attempts : hangUp(c)
  \/ \E c \in Attempts : CallTimeout(c)
  \/ \E p \in Peers : destroy(p)
CallSpec == Init /\ [][CallNext]_vars

Range(seq) == {seq[i] : i \in 1..Len(seq)}

\* C2: pendingRequests holds exactly the ids of the registered, not yet
\* settled sends, and an armed deadline belongs to an entry of the map; once
\* an entry is removed it is never back in the map, and no later event calls
\* resolve/reject of its send or changes its outcome.
C2_MapExact ==
  /\ \A p \in Peers :
       pendingRequests[p] \subseteq {requestId(s) : s \in {x \in Sends : SendFrom(x) = p}}
  /\ \A s \in Sends :
       /\ requestId(s) \in pendingRequests[SendFrom(s)]
            <=> (sendPhase[s] = "registered" /\ outcome[s].kind = "pending")
       /\ timer[s] => requestId(s) \in pendingRequests[SendFrom(s)]
C2_AfterRemoval ==
  \A s \in Sends :
    (sendPhase[s] = "registered" /\ requestId(s) \notin pendingRequests[SendFrom(s)])
    => /\ requestId(s) \notin pendingRequests'[SendFrom(s)]
       /\ settleCalls'[s] = settleCalls[s]
       /\ outcome'[s] = outcome[s]
C2_PendingRemovedOnce == []C2_MapExact /\ [][C2_AfterRemoval]_vars
\* One request answered and removed while the other is still in the map.
C2_Witness ==
  /\ outcome[1].kind = "resolved" /\ connClient[1] = "closed"
  /\ requestId(1) \notin pendingRequests[Caller]
  /\ requestId(2) \in pendingRequests[Caller]

\* C3: a request served by a handler that returns its input resolves only to
\* the payload that was sent, and it does resolve to it once the response
\* has been delivered before the deadline.
C3_EchoRoundTrip ==
  \A s \in Sends :
    task[s].kind = "echo" =>
      /\ outcome[s].kind = "resolved" => outcome[s].value = sendReq[s].data
      /\ (task[s].state = "done" /\ toClient[s] = NoMsg /\ ~timedOut[s])
           => outcome[s] = Resolved(sendReq[s].data)
C3_Witness ==
  /\ task[1].kind = "echo" /\ outcome[1] = Resolved(<<"x", "1">>)
  /\ task[2].kind = "echo" /\ outcome[2] = Resolved(Undefined)

\* C4: a request received while its path has no handler is answered with one
\* response, status 404 and payload {error: "Path not found: <path>"}; the
\* send never resolves, and once the response has been delivered before the
\* deadline it is rejected with an error that holds 404 and the path.
C4_NotFound ==
  \A s \in Sends :
    (task[s].state = "done" /\ task[s].kind = NoHandler) =>
      /\ respLog[s] = <<[type |-> "response", id |-> requestId(s), path |-> "",
                         status |-> 404,
                         data |-> <<"error", "Path not found: ", sendReq[s].path>>]>>
      /\ outcome[s].kind # "resolved"
      /\ (toClient[s] = NoMsg /\ ~timedOut[s]) =>
           /\ outcome[s].kind = "rejected"
           /\ outcome[s].error.msg = "Request failed: "
           /\ outcome[s].error.status = 404
           /\ sendReq[s].path \in Range(outcome[s].error.detail)
           /\ "Path not found: " \in Range(outcome[s].error.detail)
C4_Witness ==
  \E s \in Sends :
    /\ task[s].state = "done" /\ task[s].kind = NoHandler
    /\ outcome[s].kind = "rejected" /\ outcome[s].error.status = 404
    /\ sendReq[s].path = "/info"

\* C5 as stated: whatever the handler throws, the 500 response and the
\* rejection of the send carry the thrown message.
C5_ThrownMessageAlways ==
  \A s \in Sends :
    (task[s].state = "done" /\ task[s].kind \in {"throw", "throwValue"}) =>
      LET m == RunHandler(task[s].kind, task[s].from, task[s].path, task[s].data).message IN
      /\ respLog[s] = <<[type |-> "response", id |-> requestId(s), path |-> "",
                         status |-> 500, data |-> <<"error", m>>]>>
      /\ (toClient[s] = NoMsg /\ ~timedOut[s]) =>
           /\ outcome[s].kind = "rejected"
           /\ m \in Range(outcome[s].error.detail)

\* C5: when the handler throws or rejects, the dispatcher still sends one
\* response, status 500 and payload {error: <message>} (the message of a
\* thrown Error, 'Unknown error' for any other thrown value); the send never
\* resolves and, once the response has been delivered before the deadline,
\* it is rejected with an error that holds 500 and that message.
C5_HandlerThrows ==
  \A s \in Sends :
    (task[s].state = "done" /\ task[s].kind \in {"throw", "throwValue"}) =>
      LET m == IF task[s].kind = "throw" THEN "boom" ELSE "Unknown error" IN
      /\ respLog[s] = <<[type |-> "response", id |-> requestId(s), path |-> "",
                         status |-> 500, data |-> <<"error", m>>]>>
      /\ outcome[s].kind # "resolved"
      /\ (toClient[s] = NoMsg /\ ~timedOut[s]) =>
           /\ outcome[s].kind = "rejected"
           /\ outcome[s].error.msg = "Request failed: "
           /\ outcome[s].error.status = 500
           /\ m \in Range(outcome[s].error.detail)
\* One send rejected with the message of a thrown Error, the other with
\* 'Unknown error' after the handler threw a string.
C5_Witness ==
  /\ task[1].state = "done" /\ task[1].kind = "throw"
  /\ outcome[1].kind = "rejected" /\ outcome[1].error.status = 500
  /\ "boom" \in Range(outcome[1].error.detail)
  /\ task[2].state = "done" /\ task[2].kind = "throwValue"
  /\ outcome[2].kind = "rejected" /\ outcome[2].error.status = 500
  /\ "Unknown error" \in Range(outcome[2].error.detail)

\* C6: every envelope that reaches a send carries that send's id, every
\* handler call is made with the path and payload of the send it serves, and
\* a send that resolves holds the value its own handler returned.
C6_OwnResponse ==
  \A s \in Sends :
    /\ toClient[s] # NoMsg =>
         toClient[s].type = "response" /\ toClient[s].id = requestId(s)
    /\ task[s].state # "none" =>
         /\ task[s].id = requestId(s)
         /\ task[s].path = sendReq[s].path
         /\ task[s].data = sendReq[s].data
    /\ outcome[s].kind = "resolved" =>
         /\ task[s].state = "done" /\ task[s].kind \in {"echo", "const"}
         /\ outcome[s].value =
              (IF task[s].kind = "echo" THEN sendReq[s].data
               ELSE <<"result", sendReq[s].path, SendFrom(s)>>)
\* Two sends in flight together, to different handlers, each resolved to
\* its own value.
C6_Witness ==
  /\ sendReq[1].path = "/info" /\ sendReq[2].path = "/echo"
  /\ outcome[1] = Resolved(<<"result", "/info", "B">>)
  /\ outcome[2] = Resolved(<<"x", "1">>)

\* C7: once the deadline of a request has expired, its connection is closed,
\* its entry is removed and the send is rejected with the timeout error that
\* names the target and the path.
C7_TimeoutRejects ==
  \A s \in Sends :
    timedOut[s] =>
      /\ connClient[s] = "closed"
      /\ requestId(s) \notin pendingRequests[SendFrom(s)]
      /\ outcome[s] = Rejected(TimeoutError(SendTo(s), sendReq[s].path))

\* C8: a send settled by a response resolves with the response payload alone
\* iff 200 <= status < 300, and is rejected with an error that carries the
\* status and the payload otherwise.
C8_UnboxByStatus ==
  \A s \in Sends :
    (respLog[s] # <<>> /\ toClient[s] = NoMsg) =>
      LET r == respLog[s][1] IN
      IF 200 <= r.status /\ r.status < 300
      THEN outcome[s] = Resolved(r.data)
      ELSE /\ outcome[s].kind = "rejected"
           /\ outcome[s].error.status = r.status
           /\ outcome[s].error.detail = JSONstringify(r.data)
C8_Witness ==
  /\ respLog[1] # <<>> /\ respLog[1][1].status = 299 /\ outcome[1].kind = "resolved"
  /\ respLog[2] # <<>> /\ respLog[2][1].status = 300 /\ outcome[2].kind = "rejected"

\* C9: no wrapper ever holds more than one CallSession in state connecting
\* or connected.
C9_SingleLiveSession ==
  \A p \in Peers :
    Cardinality({c \in Attempts :
                   attempt[c].owner = p
                   /\ session[c].state \in {"connecting", "connected"}}) <= 1

\* C10: a call() or answer() invoked while the wrapper has an active call is
\* rejected at once with 'Already in a call' (answer() closes the offered
\* media connection); it acquires no local media, creates no session and
\* leaves the active call and its session as they were.
C10_Step ==
  \A c \in Attempts :
    (attempt[c].pc = "idle" /\ attempt'[c].pc # "idle"
       /\ activeCall[attempt'[c].owner] # NoCall) =>
      LET p == attempt'[c].owner IN
      /\ attempt'[c].pc = "done"
      /\ callOutcome'[c] = Rejected(AlreadyInCallError)
      /\ attempt'[c].op = "answer" =>
           media'[attempt'[c].offer].ends["callee"] = "closed"
      /\ gumCalls' = gumCalls
      /\ \A d \in Attempts : session[d].state = "none" => session'[d].state = "none"
      /\ activeCall'[p] = activeCall[p]
      /\ session'[activeCall[p]] = session[activeCall[p]]
C10_RejectWhenActive == [][C10_Step]_vars

\* C11: 'ended' is terminal: no step takes a session out of state ended,
\* and a session only moves connecting -> connected -> ended or
\* connecting -> ended.
C11_Step ==
  \A c \in Attempts :
    /\ session[c].state = "ended" => session'[c].state = "ended"
    /\ session[c].state = "connected" => session'[c].state \in {"connected", "ended"}
C11_EndedIsTerminal == [][C11_Step]_vars

\* C12: the state listeners of a session are notified of 'ended' at most
\* once, whatever close and error events and hangUp() calls reach it.
C12_OneEndedNotification ==
  \A c \in Attempts :
    (session[c].state = "ended" /\ session[c].reason = "Connection closed")
      => endedNotes[c] = 1

\* C13: once the no-answer timeout has found the session of a call() not
\* connected, the session is ended, the call() promise is rejected and the
\* session is not the active call.
C13_NoAnswerEndsSession ==
  \A c \in Attempts :
    callTimedOut[c] =>
      /\ session[c].state = "ended"
      /\ callOutcome[c].kind = "rejected"
      /\ activeCall[attempt[c].owner] # c

\* C14: the promise of call() settles once; it resolves only in a step that
\* takes the session to connected, and a step that takes the session from
\* connecting to ended while the promise is pending rejects it with the end
\* reason.
C14_Step ==
  \A c \in Attempts :
    attempt[c].op = "call" =>
      /\ callOutcome[c].kind # "pending" => callOutcome'[c] = callOutcome[c]
      /\ (callOutcome[c].kind = "pending" /\ callOutcome'[c].kind = "resolved")
           => session'[c].state = "connected"
      /\ (callOutcome[c].kind = "pending" /\ session[c].state = "connecting"
            /\ session'[c].state = "ended")
           => /\ callOutcome'[c].kind = "rejected"
              /\ callOutcome'[c].error.msg = session'[c].reason
C14_CallPromise == [][C14_Step]_vars

\* Calls that are answered: media is granted, offers are delivered and
\* answered, the transport delivers answers and streams; nobody hangs up.
AnswerNext ==
  \/ \E p \in Peers : PeerOpen(p)
  \/ \E c \in Attempts, p, q \in Peers, video \in BOOLEAN : call(c, p, q, video)
  \/ \E c \in Attempts : CallMediaDone(c, TRUE)
  \/ \E m \in Attempts : IncomingCall(m)
  \/ \E c, m \in Attempts : answer(c, m)
  \/ \E c \in Attempts : AnswerMediaDone(c, TRUE)
  \/ \E m \in Attempts : MediaAnswered(m)
  \/ \E m \in Attempts, side \in Sides : MediaStream(m, side)
\* The transport delivers what it was given, and a pending getUserMedia()
\* settles; the application is free to call and to answer or not.
AnswerFairness ==
  /\ \A p \in Peers : WF_vars(PeerOpen(p))
  /\ \A c \in Attempts : WF_vars(CallMediaDone(c, TRUE))
  /\ \A c \in Attempts : WF_vars(AnswerMediaDone(c, TRUE))
  /\ \A m \in Attempts : WF_vars(IncomingCall(m))
  /\ \A m \in Attempts : WF_vars(MediaAnswered(m))
  /\ \A m \in Attempts, side \in Sides : WF_vars(MediaStream(m, side))
AnswerSpec == Init /\ [][AnswerNext]_vars /\ AnswerFairness

\* C15: the offer handed to the callee's listeners names the caller and
\* carries the caller's video choice; once answer() has created the
\* callee's session, both sessions of the call reach connected and the
\* caller's call() promise is resolved (unless an end of the media
\* connection is closed first).
C15_OfferAsCalled ==
  \A m \in Attempts :
    media[m].ends["callee"] # "none" =>
      /\ media[m].offer.from = attempt[m].owner
      /\ media[m].offer.hasVideo = attempt[m].video
C15_Answered(c) ==
  /\ attempt[c].op = "answer" /\ session[c].state = "connecting"
  \* the only answer() that produced a session on this offer
  /\ \A d \in Attempts \ {c} :
       ~(attempt[d].op = "answer" /\ attempt[d].offer = attempt[c].offer
         /\ session[d].state # "none")
C15_BothConnected(c) ==
  IF attempt[c].op # "answer" THEN FALSE
  ELSE LET m == attempt[c].offer IN
       \/ /\ session[c].state = "connected"
          /\ session[m].state = "connected"
          /\ callOutcome[m] = Resolved(CallSessionValue)
       \/ \E sd \in Sides : media[m].ends[sd] = "closed"
C15_AnsweredCallConnects ==
  /\ []C15_OfferAsCalled
  /\ \A c \in Attempts : C15_Answered(c) ~> C15_BothConnected(c)
\* A called B without video, B answered, both sessions are connected.
C15_Witness ==
  /\ attempt[1].op = "call" /\ attempt[1].owner = "A" /\ ~attempt[1].video
  /\ media[1].offer = [from |-> "A", hasVideo |-> FALSE]
  /\ attempt[2].op = "answer" /\ attempt[2].owner = "B" /\ attempt[2].offer = 1
  /\ session[1].state = "connected" /\ session[2].state = "connected"
  /\ callOutcome[1] = Resolved(CallSessionValue)
  /\ callOutcome[2] = Resolved(CallSessionValue)

\* Sessions that are muted and unmuted while calls are answered and ended.
MuteNext ==
  \/ \E p \in Peers : PeerOpen(p)
  \/ \E c \in Attempts, p, q \in Peers : call(c, p, q, FALSE)
  \/ \E c \in Attempts : CallMediaDone(c, TRUE)
  \/ \E m \in Attempts : IncomingCall(m)
  \/ \E c, m \in Attempts : answer(c, m)
  \/ \E c \in Attempts : AnswerMediaDone(c, TRUE)
  \/ \E m \in Attempts : MediaAnswered(m)
  \/ \E m \in Attempts, side \in Sides : MediaStream(m, side)
  \/ \E m \in Attempts, side \in Sides : MediaRemoteClose(m, side)
  \/ \E c \in Attempts : hangUp(c)
  \/ \E c \in Attempts : toggleMute(c)
MuteSpec == Init /\ [][MuteNext]_vars

\* C16: on every session, at any point of any sequence of toggles:
\* toggleMute() returns the muted state it leaves behind, which is the
\* opposite of the one before; afterwards every audio track has
\* enabled = not isMuted and no track was stopped; a second toggleMute()
\* restores the muted state and every track's enabled flag.  (A session
\* that has dropped its local stream has no tracks: toggleMute() changes
\* nothing and returns the muted state as it is.)
C16_ToggleMute ==
  \A c \in Attempts :
    session[c].state # "none" =>
      LET s == session[c]
          once == toggleMuteSt(s)
          twice == toggleMuteSt(once.ses)
      IN /\ once.ret = once.ses.isMuted
         /\ once.ses.local = s.local
         /\ s.local =>
              /\ once.ses.isMuted = ~s.isMuted
              /\ \A i \in AudioTracks : once.ses.audio[i] = ~once.ses.isMuted
              /\ \A i \in AudioTracks : s.audio[i] = ~s.isMuted
         /\ ~s.local => once.ses = s
         /\ twice.ses.isMuted = s.isMuted
         /\ \A i \in AudioTracks : twice.ses.audio[i] = s.audio[i]
         /\ twice.ret = s.isMuted
\* A connected session that was muted, and an ended one that was muted
\* before it ended.
C16_Witness ==
  \E c, d \in Attempts :
    /\ session[c].state = "connected" /\ session[c].local /\ session[c].isMuted
    /\ \A i \in AudioTracks : ~session[c].audio[i]
    /\ session[d].state = "ended" /\ ~session[d].local /\ session[d].isMuted

\* The supervisor: wrappers constructed with or without an id, their handles
\* open, fail, disconnect and are replaced; sends wait for a handle.
SupervisorInit ==
  \E arg \in {a \in [Peers -> {""} \cup Peers] : \A p \in Peers : a[p] \in {"", p}} :
    Construct(arg)
SupervisorNext ==
  \/ \E s \in Sends : send(s, "/echo", <<"x", "1">>)
  \/ \E p \in Peers : PeerOpen(p)
  \/ \E p \in Peers : PeerDisconnected(p)
  \/ \E p \in Peers, type \in PeerErrorTypes : PeerError(p, type)
  \/ \E p \in Peers : ReconnectFire(p)
  \/ \E p \in Peers : destroy(p)
SupervisorSpec == SupervisorInit /\ [][SupervisorNext]_vars

\* getPeerId()
getPeerId(p) == myPeerId[p]

\* The supervisor under a transport that reports the loss of its server
\* connection as a network error followed by 'disconnected', whose
\* reconnect timeout fires, and whose handles open when left alone.
ReconnectNext ==
  \/ \E s \in Sends : send(s, "/echo", <<"x", "1">>)
  \/ \E p \in Peers : PeerOpen(p)
  \/ \E p \in Peers : PeerDisconnected(p)
  \/ \E p \in Peers, type \in RecoverableErrors : PeerAbort(p, type)
  \/ \E p \in Peers : PeerError(p, "unavailable-id")
  \/ \E p \in Peers : ReconnectFire(p)
  \/ \E p \in Peers : destroy(p)
ReconnectFairness ==
  \A p \in Peers : WF_vars(ReconnectFire(p)) /\ WF_vars(PeerOpen(p))
ReconnectSpec == SupervisorInit /\ [][ReconnectNext]_vars /\ ReconnectFairness

\* whenReady() called at any time on either peer, while the handles open,
\* disconnect, report errors, are replaced and destroyed.
ReadyNext ==
  \/ \E r \in ReadyCalls, p \in Peers : whenReady(r, p)
  \/ \E p \in Peers : PeerOpen(p)
  \/ \E p \in Peers : PeerDisconnected(p)
  \/ \E p \in Peers, type \in PeerErrorTypes : PeerError(p, type)
  \/ \E p \in Peers : ReconnectFire(p)
  \/ \E p \in Peers : destroy(p)
ReadySpec == Init /\ [][ReadyNext]_vars

\* whenReady(), send() and call() on B at any time, before and after B's
\* destroy(), while B's handle opens, fails and is replaced.
Owner == "B"
ShutdownNext ==
  \/ \E r \in ReadyCalls : whenReady(r, Owner)
  \/ \E s \in Sends : send(s, "/echo", <<"x", "1">>)
  \/ \E c \in Attempts : call(c, Owner, "A", FALSE)
  \/ PeerOpen(Owner)
  \/ PeerDisconnected(Owner)
  \/ PeerError(Owner, "network")
  \/ ReconnectFire(Owner)
  \/ destroy(Owner)
ShutdownSpec == Init /\ [][ShutdownNext]_vars

\* destroy() on wrappers that hold everything destroy() has to release: B has
\* requests under way to A and calls A, A tracks B's inbound connections and
\* answers the call, both register handlers and incoming-call listeners, and
\* either may have a reconnect scheduled.
TeardownNext ==
  \/ \E s \in Sends : send(s, "/echo", <<"x", "1">>)
  \/ \E s \in Sends : ClientConnOpen(s)
  \/ \E s \in Sends : ServerConnection(s)
  \/ \E p \in Peers : registerHandler(p, "/echo", "echo") /\ UNCHANGED regLog
  \/ \E p \in Peers, l \in IncomingListeners : onIncomingCall(p, l)
  \/ \E p \in Peers, l \in IncomingListeners : offIncomingCall(p, l)
  \/ call(1, Caller, Callee, FALSE)
  \/ CallMediaDone(1, TRUE)
  \/ IncomingCall(1)
  \/ answer(2, 1)
  \/ AnswerMediaDone(2, TRUE)
  \/ MediaAnswered(1)
  \/ \E p \in Peers : PeerOpen(p)
  \/ \E p \in Peers : PeerDisconnected(p)
  \/ \E p \in Peers : destroy(p)
TeardownSpec == Init /\ [][TeardownNext]_vars

\* The call just made on p's registry is written to the log.
Logged(p, entry) ==
  /\ Len(regLog[p]) < MaxRegLog
  /\ regLog' = [regLog EXCEPT ![p] = Append(@, entry)]
\* The registry of A: handlers are registered, replaced and unregistered in
\* any order while requests from B for both paths are served.
RegistryNext ==
  \/ \E r \in Registrations :
        registerHandler(Callee, r[1], r[2]) /\ Logged(Callee, <<"set", r[1], r[2]>>)
  \/ \E path \in Paths :
        unregisterHandler(Callee, path) /\ Logged(Callee, <<"delete", path, NoHandler>>)
  \/ \E s \in Sends, path \in Paths : send(s, path, <<"x", "1">>)
  \/ \E s \in Sends : ClientConnOpen(s)
  \/ \E s \in Sends : ServerConnection(s)
  \/ \E s \in Sends : ServerData(s)
  \/ \E s \in Sends : HandlerDone(s)
  \/ PeerOpen(Callee)
  \/ PeerOpen(Caller)
RegistrySpec == Init /\ [][RegistryNext]_vars

\* C17: getPeerId() never changes, and every handle the wrapper holds was
\* created with exactly that id.
C17_HandleBound ==
  \A p \in Peers :
    /\ getPeerId(p) # ""
    /\ peerInstance[p] # "null" => handleId[p] = getPeerId(p)
C17_IdentityFixed ==
  /\ []C17_HandleBound
  /\ [][\A p \in Peers : getPeerId(p)' = getPeerId(p)]_vars
\* B was constructed without an id; its first handle was replaced by a
\* reconnect (a send that waited on it was left behind) and the new handle
\* is open under the generated id.
C17_Witness ==
  /\ myPeerId["B"] = generateUUID("B")
  /\ sendPhase[1] = "orphaned" /\ ~isDestroyed["B"]
  /\ peerInstance["B"] = "open" /\ handleId["B"] = generateUUID("B")

\* A step in which p's handle reports 'disconnected' or an error.
C18_Failure(p) ==
  \/ PeerDisconnected(p)
  \/ \E type \in PeerErrorTypes : PeerAbort(p, type) \/ PeerError(p, type)
\* C18: unless destroy() is called, a handle that reported 'disconnected' or
\* a recoverable error is eventually replaced by a new handle, every time
\* (so also when the replacement fails again), and once the handles stop
\* failing the wrapper ends up with an open handle that is never replaced.
C18_Reconnects ==
  \A p \in Peers :
    /\ peerInstance[p] = "disconnected"
          ~> (peerInstance[p] = "connecting" \/ isDestroyed[p])
    /\ (<>[][~C18_Failure(p)]_vars)
          => <>[](peerInstance[p] = "open" \/ isDestroyed[p])
\* B's first handle was replaced, the replacement failed too and was
\* replaced in turn, and the wrapper holds an open handle with no reconnect
\* pending.
C18_Witness ==
  /\ sendPhase[1] = "orphaned" /\ sendPhase[2] = "failed"
  /\ ~isDestroyed["B"] /\ peerInstance["B"] = "open" /\ ~reconnectTimer["B"]
\* C19: whenReady() resolves in the call itself when the current handle is
\* open and stays pending when the handle exists and is not open; a pending
\* whenReady() resolves in the step in which the handle it was called on
\* reports open, and rejects with the error in the step in which that handle
\* reports an error of any type; a settled whenReady() never changes.
C19_Step ==
  \A r \in ReadyCalls :
    /\ \A p \in Peers :
          (ready[r].pc = "idle" /\ ready'[r].pc # "idle" /\ ready'[r].owner = p) =>
             /\ peerInstance[p] = "open" => ready'[r].outcome = Resolved(Undefined)
             /\ peerInstance[p] \in {"connecting", "disconnected"} =>
                   ready'[r].outcome = PendingOutcome
    /\ ready[r].pc = "waiting" =>
          /\ PeerOpen(ready[r].owner) => ready'[r].outcome = Resolved(Undefined)
          /\ \A type \in PeerErrorTypes :
                PeerError(ready[r].owner, type) =>
                   ready'[r].outcome = Rejected(TransportError(type))
    /\ ready[r].outcome # PendingOutcome => ready'[r].outcome = ready[r].outcome
C19_WhenReady == [][C19_Step]_vars
\* One whenReady() was rejected by an error that does not lead to a
\* reconnect, reported by the handle it waited on, and another resolved.
C19_Witness ==
  /\ ready[1].outcome = Rejected(TransportError("unavailable-id"))
  /\ ready[2].outcome = Resolved(Undefined)
  /\ ready[1].owner = ready[2].owner
\* C20: a whenReady(), send() or call() made on a destroyed wrapper returns a
\* promise that is already rejected, and the call opens no connection,
\* registers no pending request, arms no timer, asks for no media and
\* creates no session or media connection.
C20_Step ==
  /\ \A r \in ReadyCalls :
        (ready[r].pc = "idle" /\ ready'[r].pc # "idle" /\ isDestroyed[ready'[r].owner]) =>
           ready'[r].outcome.kind = "rejected"
  /\ \A s \in Sends :
        (sendPhase[s] = "idle" /\ sendPhase'[s] # "idle" /\ isDestroyed[SendFrom(s)]) =>
           /\ outcome'[s].kind = "rejected"
           /\ connClient'[s] = "none" /\ connServer'[s] = connServer[s]
           /\ pendingRequests' = pendingRequests /\ timer' = timer
  /\ \A c \in Attempts :
        (attempt[c].pc = "idle" /\ attempt'[c].pc # "idle" /\ isDestroyed[attempt'[c].owner]) =>
           /\ callOutcome'[c].kind = "rejected"
           /\ attempt'[c].pc = "done"
           /\ gumCalls' = gumCalls /\ session' = session /\ media' = media
           /\ activeCall' = activeCall /\ callTimer' = callTimer
C20_FailFastAfterDestroy == [][C20_Step]_vars
\* B was destroyed, and afterwards one whenReady(), one send() and one call()
\* were made on it.
C20_Witness ==
  /\ isDestroyed["B"]
  /\ \E r \in ReadyCalls : ready[r].owner = "B" /\ ready[r].outcome = Rejected(NotInitializedError)
  /\ \E s \in Sends : outcome[s] = Rejected(NotInitializedError)
  /\ \E c \in Attempts : attempt[c].owner = "B" /\ callOutcome[c] = Rejected(NotInitializedError)
\* Everything but the count of destroy() calls.
C21_State ==
  <<wrapperVars, sendVars, connVars, callVars, ready, incomingCallListeners,
    reconnectTimeouts, regLog>>
\* The wrapper of p holds nothing a destroy() would release.
C21_Released(p) ==
  /\ isDestroyed[p] /\ peerInstance[p] = "null" /\ ~reconnectTimer[p]
  /\ connections[p] = {} /\ pendingRequests[p] = {} /\ activeCall[p] = NoCall
  /\ incomingCallListeners[p] = {}
  /\ \A path \in Paths : simpleHandlers[p][path] = NoHandler
\* C21: the first destroy() on a wrapper closes its tracked inbound
\* connections and empties the set, rejects each pending request with
\* 'Peer destroyed' and disarms its timeout, calls hangUp() on the active
\* session (its end of the media connection is closed) and clears the slot,
\* clears the handlers and the incoming-call listeners, cancels the reconnect
\* and drops the handle; a destroy() on the wrapper so left changes nothing.
C21_Step ==
  \A p \in Peers :
    /\ (destroyCalls[p] = 0 /\ destroyCalls'[p] = 1) =>
          /\ C21_Released(p)'
          /\ reconnectTimeouts'[p] = 0
          /\ \A s \in connections[p] : connServer'[s] = "closed"
          /\ \A s \in Sends :
                requestId(s) \in pendingRequests[p] =>
                  outcome'[s] = Rejected(PeerDestroyedError) /\ ~timer'[s]
          /\ activeCall[p] # NoCall =>
                media'[session[activeCall[p]].mc].ends[SideOf(activeCall[p])] = "closed"
    /\ (destroyCalls[p] = 1 /\ destroyCalls'[p] = 2 /\ C21_Released(p)) =>
          UNCHANGED C21_State
C21_DestroyReleases == [][C21_Step]_vars
\* A was destroyed twice after tracking an inbound connection, with a handler
\* and a listener registered and a call active; B was destroyed with a
\* request pending.
C21_Witness ==
  /\ destroyCalls["A"] = 2 /\ destroyCalls["B"] >= 1
  /\ connServer[1] = "closed"
  /\ outcome[2] = Rejected(PeerDestroyedError)
  /\ session[2].state = "ended"
\* The handler the logged calls leave for a path: that of the last call on
\* the path if it was a registration, none otherwise.
RECURSIVE C22_Last(_, _)
C22_Last(log, path) ==
  IF log = <<>> THEN NoHandler
  ELSE LET e == log[Len(log)] IN
       IF e[2] = path THEN e[3] ELSE C22_Last(SubSeq(log, 1, Len(log) - 1), path)
C22_Registry ==
  \A path \in Paths : simpleHandlers[Callee][path] = C22_Last(regLog[Callee], path)
C22_Step ==
  /\ \A path \in Paths :
        (regLog'[Callee] # regLog[Callee] /\ regLog'[Callee][Len(regLog'[Callee])][2] # path) =>
           simpleHandlers'[Callee][path] = simpleHandlers[Callee][path]
  /\ \A s \in Sends :
        LET h == C22_Last(regLog[Callee], toServer[s].path) IN
        (task[s].state = "none" /\ task'[s].state # "none") =>
           /\ task'[s].kind = h
           /\ h = NoHandler =>
                 respLog'[s] = <<ResponseMsg(requestId(s), NotFoundResponse(sendReq[s].path))>>
           /\ h # NoHandler => respLog'[s] = <<>>
  /\ \A s \in Sends :
        (task[s].state = "running" /\ task'[s].state = "done") =>
           respLog'[s] = <<ResponseMsg(requestId(s), HandlerResponse(task[s]))>>
\* C22: for every path the registry holds the handler of the last
\* registration not followed by an unregistration; a call on one path leaves
\* the other paths as they were; a request is served by the handler its path
\* has at that moment, and by a 404 response if it has none.
C22_LastRegistrationWins == []C22_Registry /\ [][C22_Step]_vars
\* /echo was registered, registered again with another handler and then
\* unregistered; one request was answered 404 and one by a handler.
C22_Witness ==
  /\ Len(regLog[Callee]) = 3
  /\ regLog[Callee][1][1] = "set" /\ regLog[Callee][2][1] = "set"
  /\ regLog[Callee][1][2] = "/echo" /\ regLog[Callee][2][2] = "/echo"
  /\ regLog[Callee][1][3] # regLog[Callee][2][3]
  /\ regLog[Callee][3] = <<"delete", "/echo", NoHandler>>
  /\ \E s, x \in Sends :
        /\ respLog[s] # <<>> /\ respLog[s][1].status = 404 /\ task[s].path = "/echo"
        /\ respLog[x] # <<>> /\ respLog[x][1].status # 404
\* C23: a send() that reached the transport has a connection of its own,
\* and once its promise is settled that connection is closed.
C23_ClosedOnCompletion ==
  \A s \in Sends :
    (sendPhase[s] = "registered" /\ outcome[s].kind # "pending") =>
       connClient[s] = "closed"
\* C24: when getUserMedia() fails in call(), the call() promise is rejected
\* with 'Failed to get media', no media connection and no session are
\* created and the active call is what it was; a call() made afterwards on
\* a wrapper without an active call is not rejected as 'Already in a call'.
C24_Step ==
  \A c \in Attempts :
    /\ CallMediaDone(c, FALSE) =>
          /\ callOutcome'[c] = Rejected(FailedMediaError)
          /\ media' = media /\ session' = session /\ activeCall' = activeCall
          /\ callTimer' = callTimer
    /\ \A d \in Attempts, p \in Peers :
          (callOutcome[d] = Rejected(FailedMediaError) /\ attempt[d].op = "call"
             /\ attempt[d].owner = p /\ session[d].state = "none"
             /\ attempt[c].pc = "idle" /\ attempt'[c].pc # "idle" /\ attempt'[c].op = "call"
             /\ attempt'[c].owner = p
             /\ \A e \in Attempts : attempt[e].owner = p => session[e].state \in {"none", "ended"})
          => callOutcome'[c] # Rejected(AlreadyInCallError)
C24_MediaFailure == [][C24_Step]_vars
\* B's first call() failed for lack of media and left no session; B's second
\* call() went on to create a session.
C24_Witness ==
  /\ attempt[1].op = "call" /\ attempt[1].owner = "B"
  /\ callOutcome[1] = Rejected(FailedMediaError) /\ session[1].state = "none"
  /\ media[1] = NoMedia
  /\ attempt[2].op = "call" /\ attempt[2].owner = "B" /\ session[2].state = "connecting"
  /\ activeCall["B"] = 2
\* One call from Caller to Callee, answered, with state listeners coming
\* and going on both sessions.
ListenerNext ==
  \/ \E p \in Peers : PeerOpen(p)
  \/ call(1, Caller, Callee, FALSE)
  \/ CallMediaDone(1, TRUE)
  \/ IncomingCall(1)
  \/ answer(2, 1)
  \/ AnswerMediaDone(2, TRUE)
  \/ MediaAnswered(1)
  \/ \E side \in Sides : MediaStream(1, side)
  \/ \E side \in Sides : MediaRemoteClose(1, side)
  \/ \E side \in Sides : MediaError(1, side)
  \/ \E c \in Attempts : hangUp(c)
  \/ \E c \in Attempts, l \in StateListeners : onStateChange(c, l)
  \/ \E c \in Attempts, l \in StateListeners : offStateChange(c, l)
ListenerSpec == Init /\ [][ListenerNext]_vars

\* C25: when a session changes state, every listener subscribed at that
\* moment is called once with the new state, in the order of subscription,
\* whether or not an earlier one threw; the state is the new one afterwards
\* and a session that ended is no longer the active call.
C25_Step ==
  \A c \in Attempts :
    (session[c].state # "none" /\ session'[c].state # session[c].state) =>
       /\ session'[c].subs = session[c].subs
       /\ session'[c].heard =
            [i \in 1..Len(session[c].subs) |-> <<session[c].subs[i], session'[c].state>>]
       /\ session'[c].state = "ended" => activeCall'[attempt[c].owner] # c
C25_ListenersNotified == [][C25_Step]_vars
\* A session with the throwing listener subscribed before the returning one
\* has ended, both were told, and it is not the active call.
C25_Witness ==
  \E c \in Attempts :
    /\ session[c].state = "ended"
    /\ session[c].subs = <<"throws", "returns">>
    /\ session[c].heard = << <<"throws", "ended">>, <<"returns", "ended">> >>
    /\ activeCall[attempt[c].owner] = NoCall
\* C26: a wrapper never has more than one reconnect timeout pending, and
\* reconnectTimer is set exactly while one is; a 'disconnected' or a
\* recoverable error that arrives while one is pending sets no timeout; a
\* timeout fires only while pending and is no longer pending once fired.
C26_AtMostOne ==
  \A p \in Peers :
    /\ reconnectTimeouts[p] <= 1
    /\ reconnectTimer[p] <=> reconnectTimeouts[p] = 1
C26_Step ==
  \A p \in Peers :
    /\ (reconnectTimer[p] /\ (PeerDisconnected(p)
                                \/ \E type \in RecoverableErrors : PeerError(p, type))) =>
          /\ reconnectTimeouts'[p] = reconnectTimeouts[p]
          /\ reconnectTimer'[p]
    /\ ReconnectFire(p) =>
          /\ reconnectTimeouts[p] = 1
          /\ reconnectTimeouts'[p] = 1 => peerInstance[p] \in {"connecting", "open"}
C26_SingleReconnect == []C26_AtMostOne /\ [][C26_Step]_vars
\* B's handle reported a network error, which failed the send waiting on
\* it, and is disconnected; one reconnect is pending.
C26_Witness ==
  /\ sendPhase[1] = "failed" /\ outcome[1] = Rejected(TransportError("network"))
  /\ peerInstance["B"] = "disconnected" /\ ~isDestroyed["B"]
  /\ reconnectTimer["B"] /\ reconnectTimeouts["B"] = 1
\* C27: an error whose type is none of network, server-error, socket-error
\* and socket-closed, reported by a handle that has not opened, rejects the
\* whenReady() calls waiting on that handle with the error, and leaves the
\* reconnect timer, the pending timeouts and the handle as they were.
C27_Step ==
  \A p \in Peers, type \in PeerErrorTypes :
    (/\ type \notin {"network", "server-error", "socket-error", "socket-closed"}
     /\ peerInstance[p] = "connecting"
     /\ PeerError(p, type)) =>
       /\ \A r \in ReadyCalls :
             (ready[r].owner = p /\ ready[r].pc = "waiting") =>
                ready'[r].outcome = Rejected(TransportError(type))
       /\ reconnectTimer'[p] = reconnectTimer[p]
       /\ reconnectTimeouts'[p] = reconnectTimeouts[p]
       /\ peerInstance'[p] = peerInstance[p] /\ handleId'[p] = handleId[p]
C28_Terminal ==
  \A p \in Peers :
    isDestroyed[p] =>
      /\ peerInstance[p] = "null" /\ handleId[p] = ""
      /\ ~reconnectTimer[p] /\ reconnectTimeouts[p] = 0
C28_Step ==
  \A p \in Peers :
    /\ isDestroyed[p] => (isDestroyed'[p] /\ ~ReconnectFire(p))
    /\ destroy(p) => (~reconnectTimer'[p] /\ reconnectTimeouts'[p] = 0)
C28_NoReconnectAfterDestroy == []C28_Terminal /\ [][C28_Step]_vars
\* B's handle reported a network error, which scheduled a reconnect, and B
\* was then destroyed, twice.
C28_Witness ==
  /\ isDestroyed["B"] /\ destroyCalls["B"] = 2
  /\ sendPhase[1] = "failed" /\ outcome[1] = Rejected(TransportError("network"))
  /\ peerInstance["B"] = "null" /\ ~reconnectTimer["B"]
\* C29: an inbound connection that reported close or error is no longer in
\* the connections set, and the dispatcher calls conn.send() only on
\* connections that are in the set.
C29_Step ==
  \A s \in Sends :
    /\ (ServerConnClose(s) \/ ServerConnError(s)) => s \notin connections'[SendTo(s)]
    /\ respLog'[s] # respLog[s] => s \in connections[SendTo(s)]
C29_NoResponseAfterClose == [][C29_Step]_vars
\* The first half of C29 alone: close and error remove the connection.
C29_Removed ==
  [][\A s \in Sends :
       (ServerConnClose(s) \/ ServerConnError(s)) => s \notin connections'[SendTo(s)]]_vars
\* The dispatcher of A under requests from B over both paths and payloads
\* and under messages that are not requests.
EnvelopeNext ==
  \/ \E s \in Sends, path \in Paths, data \in Payloads : send(s, path, data)
  \/ \E s \in Sends : ClientConnOpen(s)
  \/ \E s \in Sends : ClientData(s)
  \/ \E s \in Sends : ServerConnection(s)
  \/ \E s \in Sends, type \in StrayTypes : InboundStray(s, type)
  \/ \E s \in Sends : ServerData(s)
  \/ \E s \in Sends : HandlerDone(s)
  \/ \E r \in Registrations : registerHandler(Callee, r[1], r[2]) /\ UNCHANGED regLog
  \/ PeerOpen(Callee)
  \/ PeerOpen(Caller)
EnvelopeSpec == Init /\ [][EnvelopeNext]_vars

\* C30: a request envelope that arrives on an inbound connection is handed
\* to handleRequest with the id of the peer at the other end and the
\* request's path and payload; the dispatcher sends one response for it, on
\* that connection, with the request's id, and none before the handler is
\* done; a message of any other type starts no handler and sends nothing.
C30_OneResponse ==
  \A s \in Sends :
    /\ task[s].state \in {"none", "running"} => respLog[s] = <<>>
    /\ task[s].state = "done" =>
          /\ Len(respLog[s]) = 1
          /\ respLog[s][1].type = "response" /\ respLog[s][1].id = task[s].id
C30_Step ==
  \A s \in Sends :
    /\ (ServerData(s) /\ toServer[s].type = "request") =>
          /\ task'[s].from = getPeerId(SendFrom(s))
          /\ task'[s].path = toServer[s].path /\ task'[s].data = toServer[s].data
          /\ task'[s].id = toServer[s].id
          /\ task'[s].kind = simpleHandlers[SendTo(s)][toServer[s].path]
    /\ (ServerData(s) /\ toServer[s].type # "request") =>
          /\ task' = task /\ respLog' = respLog /\ toClient' = toClient
    /\ respLog'[s] # respLog[s] => toClient'[s] = respLog'[s][Len(respLog'[s])]
C30_Dispatch == []C30_OneResponse /\ [][C30_Step]_vars
\* A's handler for /info was called with B's id and answered the first
\* request, whose send resolved with what the handler made of that id; a
\* message that is not a request is waiting on the second connection.
C30_Witness ==
  /\ task[1].state = "done" /\ task[1].kind = "const" /\ task[1].from = "B"
  /\ outcome[1] = Resolved(<<"result", "/info", "B">>)
  /\ toServer[2].type = "response" /\ task[2].state = "none"
\* A send() of a wrapper that is not destroyed whose handle was replaced
\* under it: it was waiting for that handle to open, or its connection on
\* that handle was torn down with the request still pending.
C31_Superseded(s) ==
  /\ ~isDestroyed[SendFrom(s)]
  /\ \/ sendPhase[s] = "orphaned"
     \/ /\ sendPhase[s] = "registered" /\ connClient[s] = "closed"
        /\ outcome[s].kind = "pending"
\* C31: a send() whose handle was replaced by a reconnect is rejected and
\* has no entry in pendingRequests, unless the wrapper is destroyed first.
C31_SupersededSendFails ==
  \A s \in Sends :
    C31_Superseded(s) ~>
      \/ isDestroyed[SendFrom(s)]
      \/ outcome[s].kind = "rejected" /\ requestId(s) \notin pendingRequests[SendFrom(s)]
\* The same for the sends that had opened their connection only.
C31_RegisteredSendFails ==
  \A s \in Sends :
    (C31_Superseded(s) /\ sendPhase[s] = "registered") ~>
      \/ isDestroyed[SendFrom(s)]
      \/ outcome[s].kind = "rejected" /\ requestId(s) \notin pendingRequests[SendFrom(s)]
\* A request is put on the wire once, and a send whose handle was replaced
\* is never resolved.
C31_NotMigrated ==
  [][\A s \in Sends :
       /\ C31_Superseded(s) => outcome'[s].kind # "resolved"
       /\ (C31_Superseded(s) /\ toServer[s] = NoMsg) => toServer'[s] = NoMsg]_vars
\* The deadline of a send() is not armed once its promise has settled.
C32_SendTimer ==
  \A s \in Sends : outcome[s].kind # "pending" => ~timer[s]
\* The no-answer timeout of a call() is not armed once its promise has
\* settled, its session has ended or its wrapper is destroyed.
C32_CallTimer ==
  \A c \in Attempts :
    (\/ callOutcome[c].kind # "pending"
     \/ session[c].state = "ended"
     \/ attempt[c].owner \in Peers /\ isDestroyed[attempt[c].owner]) => ~callTimer[c]
\* The reconnect timeout is not pending after the step in which the handle
\* opens or destroy() runs.
C32_ReconnectTimer ==
  \A p \in Peers :
    (PeerOpen(p) \/ destroy(p)) => (~reconnectTimer'[p] /\ reconnectTimeouts'[p] = 0)
\* C32: every timer is disarmed by the path that resolves what it guards:
\* the three statements above, and no timeout callback runs for a request
\* that has settled or for a call of a destroyed wrapper.
C32_TimersDisarmed ==
  /\ [](C32_SendTimer /\ C32_CallTimer)
  /\ [][/\ C32_ReconnectTimer
        /\ \A s \in Sends : Timeout(s) => outcome[s].kind = "pending"
        /\ \A c \in Attempts : CallTimeout(c) => ~isDestroyed[attempt[c].owner]]_vars
C32_ReconnectTimerOnly == [][C32_ReconnectTimer]_vars
\* The session's own end of its media connection has been closed: by
\* hangUp(), the no-answer timeout, destroy(), or the transport.
C33_Closed(c) ==
  session[c].state # "none" /\ media[session[c].mc].ends[SideOf(c)] = "closed"
\* The local tracks of a session are stopped at most once, and are stopped
\* once the session has ended.
C33_StoppedOnce ==
  \A c \in Attempts :
    /\ session[c].stops <= 1
    /\ session[c].state = "ended" => (session[c].stops = 1 /\ ~session[c].local)
\* C33: a session that has ended, or whose media connection was closed from
\* its own side, has had its local tracks stopped exactly once and holds
\* neither its local nor its remote stream.
C33_TracksReleased ==
  \A c \in Attempts :
    /\ session[c].stops <= 1
    /\ (session[c].state = "ended" \/ C33_Closed(c)) =>
          /\ session[c].stops = 1
          /\ ~session[c].local /\ ~session[c].remote
\* What hangUp() on session c is to bring about: the 'close' handler ends
\* the session, its listeners are told once, it is not the active call.
C34_Ended(c) ==
  /\ session'[c].state = "ended" /\ session'[c].reason = "Connection closed"
  /\ endedNotes'[c] = 1
  /\ activeCall'[attempt[c].owner] # c
\* C34: hangUp() on a session that is connecting or connected (and has not
\* ended before) ends it through the 'close' handler, with one 'ended'
\* notification, and the session is not the active call afterwards.
C34_HangUpEnds ==
  [][\A c \in Attempts :
       (hangUp(c) /\ session[c].state \in {"connecting", "connected"}
          /\ endedNotes[c] = 0) => C34_Ended(c)]_vars
\* The same for the sessions whose media connection is open.
C34_HangUpEndsOpen ==
  [][\A c \in Attempts :
       (hangUp(c) /\ session[c].state \in {"connecting", "connected"}
          /\ endedNotes[c] = 0
          /\ media[session[c].mc].ends[SideOf(c)] = "open") => C34_Ended(c)]_vars
\* Calls that may or may not be answered: the application is free to call,
\* answer, reject and hang up, the remote stream may or may not arrive.
NoAnswerNext ==
  \/ \E p \in Peers : PeerOpen(p)
  \/ \E c \in Attempts, p, q \in Peers : call(c, p, q, FALSE)
  \/ \E c \in Attempts : CallMediaDone(c, TRUE)
  \/ \E m \in Attempts : IncomingCall(m)
  \/ \E c, m \in Attempts : answer(c, m)
  \/ \E m \in Attempts : rejectOffer(m)
  \/ \E c \in Attempts : AnswerMediaDone(c, TRUE)
  \/ \E m \in Attempts : MediaAnswered(m)
  \/ \E m \in Attempts, side \in Sides : MediaStream(m, side)
  \/ \E m \in Attempts, side \in Sides : MediaRemoteClose(m, side)
  \/ \E c \in Attempts : hangUp(c)
  \/ \E c \in Attempts : CallTimeout(c)
\* What the event loop and the transport guarantee: an armed no-answer
\* timeout fires, a pending getUserMedia() settles, handles open, offers,
\* answers and closes are delivered.
NoAnswerFairness ==
  /\ \A p \in Peers : WF_vars(PeerOpen(p))
  /\ \A c \in Attempts : WF_vars(CallMediaDone(c, TRUE))
  /\ \A c \in Attempts : WF_vars(AnswerMediaDone(c, TRUE))
  /\ \A c \in Attempts : WF_vars(CallTimeout(c))
  /\ \A m \in Attempts : WF_vars(IncomingCall(m))
  /\ \A m \in Attempts : WF_vars(MediaAnswered(m))
  /\ \A m \in Attempts, side \in Sides : WF_vars(MediaRemoteClose(m, side))
NoAnswerSpec == Init /\ [][NoAnswerNext]_vars /\ NoAnswerFairness

\* C35: a session in state connecting eventually is connected or ended.
C35_NeverStuckConnecting ==
  \A c \in Attempts :
    session[c].state = "connecting" ~> session[c].state \in {"connected", "ended"}
\* C36: the handle that reconnect() discards schedules nothing: after the
\* step in which the reconnect timeout fires and the handle is replaced, no
\* reconnect is scheduled for the new handle.
C36_SupersededIsSilent ==
  [][\A p \in Peers :
       ReconnectFire(p) => (~reconnectTimer'[p] /\ reconnectTimeouts'[p] = 0)]_vars
\* The same when the discarded handle had already reported 'disconnected'.
C36_SilentWhenDisconnected ==
  [][\A p \in Peers :
       (ReconnectFire(p) /\ peerInstance[p] = "disconnected") =>
          (~reconnectTimer'[p] /\ reconnectTimeouts'[p] = 0)]_vars
\* ReadySpec with a reconnect timeout that fires and handles that open
\* when nothing else happens to them.
ReadyFairness ==
  \A p \in Peers : WF_vars(ReconnectFire(p)) /\ WF_vars(PeerOpen(p))
ReadyFairSpec == ReadySpec /\ ReadyFairness

\* C37: a whenReady() that did not settle in the call itself settles
\* eventually, unless the wrapper is destroyed.
C37_WhenReadySettles ==
  \A r \in ReadyCalls :
    (ready[r].pc # "idle" /\ ready[r].outcome = PendingOutcome) ~>
       \/ ready[r].outcome # PendingOutcome
       \/ ready[r].owner \in Peers /\ isDestroyed[ready[r].owner]
\* The same for the calls whose handle is not replaced while they wait.
C37_SettlesOnSameHandle ==
  \A r \in ReadyCalls :
    (ready[r].pc = "waiting" /\ peerInstance[ready[r].owner] = "connecting") ~>
       \/ ready[r].outcome # PendingOutcome
       \/ ready[r].pc = "orphaned"
       \/ ready[r].owner \in Peers /\ peerInstance[ready[r].owner] = "disconnected"
\* C38: a destroyed wrapper has no active call, and no step creates a call
\* session for an attempt of a destroyed wrapper: answer() on an offer
\* received before destroy() and call() that was awaiting the media when
\* destroy() ran are rejected.
C38_Step ==
  /\ \A p \in Peers : isDestroyed'[p] => activeCall'[p] = NoCall
  /\ \A c \in Attempts :
       (attempt[c].owner \in Peers /\ isDestroyed[attempt[c].owner]
          /\ session[c].state = "none")
       => session'[c].state = "none"
C38_NoCallAfterDestroy == [][C38_Step]_vars
\* Both operations have been tried on a destroyed wrapper and were rejected
\* by the destroyed transport handle.
C38_Witness ==
  /\ \E c \in Attempts :
       /\ attempt[c].op = "answer" /\ attempt[c].pc = "done"
       /\ isDestroyed[attempt[c].owner]
       /\ callOutcome[c] = Rejected(TypeErrorThrown)
       /\ session[c].state = "none"
       /\ activeCall[attempt[c].owner] = NoCall
  /\ \E c \in Attempts :
       /\ attempt[c].op = "call" /\ attempt[c].pc = "done"
       /\ isDestroyed[attempt[c].owner]
       /\ callOutcome[c] = Rejected(TypeErrorThrown)
       /\ session[c].state = "none"
\* C39: a reconnect of a wrapper that is not destroyed leaves its handler
\* registry, its incoming-call listeners, its pending-request map, its
\* active-call slot and its peer id as they were.
C39_Frame(p) ==
  /\ simpleHandlers'[p] = simpleHandlers[p]
  /\ incomingCallListeners'[p] = incomingCallListeners[p]
  /\ pendingRequests'[p] = pendingRequests[p]
  /\ activeCall'[p] = activeCall[p]
  /\ myPeerId'[p] = myPeerId[p]
C39_ReconnectKeepsState ==
  [][\A p \in Peers : (ReconnectFire(p) /\ ~isDestroyed[p]) => C39_Frame(p)]_vars
\* The part of it that concerns what the application registered.
C39_ReconnectKeepsRegistrations ==
  [][\A p \in Peers : (ReconnectFire(p) /\ ~isDestroyed[p]) =>
        /\ simpleHandlers'[p] = simpleHandlers[p]
        /\ incomingCallListeners'[p] = incomingCallListeners[p]
        /\ myPeerId'[p] = myPeerId[p]
        /\ handleId'[p] = HandleIdFor(myPeerId[p])]_vars
\* C40: the listeners notified of 'ended' find the session already cleared
\* from the wrapper's active-call slot, so that call() from inside such a
\* listener passes the 'Already in a call' test.
C40_ClearedWhenNotified ==
  \A c \in Attempts :
    (session[c].heard # <<>> /\ session[c].heard[1][2] = "ended")
    => (session[c].activeSeen # c /\ ~InCall(session[c].activeSeen))
\* Between the handlers the active-call slot holds no ended session.
C40_ActiveNotEnded ==
  \A p \in Peers :
    activeCall[p] # NoCall => session[activeCall[p]].state # "ended"
====
